---- MODULE Spec2Model ----
(***************************************************************************)
(* Model of the proxylab LRU cache (src/proxylab/cache.c) and of the       *)
(* connection worker that uses it (proxy.c, src/unnamed/part_000).         *)
(*                                                                         *)
(* The cache is modelled at pointer level: a heap of entry_t records       *)
(* linked into a circular doubly linked list through next/prev, with       *)
(* cache->head and cache->size.  Every public cache operation runs its     *)
(* body between cache_mutex_lock and cache_mutex_unlock, so one operation  *)
(* is one atomic step of the model.                                        *)
(***************************************************************************)
EXTENDS Integers, Sequences, FiniteSets, TLC

\* ------------------------------------------------------------------ bounds
NumCold == 10        \* keys the streaming thread inserts, once each, in order
MaxEntries == 13     \* addresses the allocator can hand out
MaxConns == 3        \* connections the acceptor takes
NumScen == 12        \* objects the eviction scenario inserts

\* --------------------------------------------------------------- constants
MAX_CACHE_SIZE == 1024 * 1024
MAX_OBJECT_SIZE == 100 * 1024
NULL == 0

Entries == 1..MaxEntries
\* the threads that call the cache API at random
Clients == {1, 2}
\* the keys (URIs) the clients and the connection workers ask for
HotKeys == {1, 2}
\* the j-th key of the streaming thread
ColdKey(j) == Cardinality(HotKeys) + j
\* contents of a caller's buffer: a token standing for its first size bytes
ZeroBytes == 0
\* the (bytes, size) pairs the clients pass to cache_insert
Objects == {[val |-> 1, size |-> 1], [val |-> 2, size |-> MAX_OBJECT_SIZE],
            [val |-> 1, size |-> MAX_OBJECT_SIZE + 1]}

VARIABLES
    heap,      \* the entry_t blocks, by address
    head,      \* cache->head
    size,      \* cache->size
    held,      \* held[w][e]: handles client w got from cache_get(e) and not yet released
    made,      \* made[e]: the key, bytes and size passed to the cache_insert that created e
    nextCold,  \* position of the streaming thread in its list of keys
    last,      \* the cache call that ran last, with its arguments and result
    wk,        \* wk[t]: the connection worker t, its locals and its sockets
    conns,     \* connections accepted so far
    fetched,   \* fetched[u]: what the client of the miss that created u's entry received
    objSize,   \* size of the objects of the eviction scenario, 0 outside it
    mutex,     \* cache->cache_mutex: the thread that holds it, or NoOwner
    th,        \* th[t]: thread t inside the cache functions, statement by statement
    rq,        \* the request a worker parses, and what it replies
    rw,        \* the request a worker rewrites for the origin, and what it sends
    proc,      \* the proxy process: "running", "killed" by a signal, or "exited"
    acc        \* main's accept loop, its per-connection structs and sockets

cacheVars == <<heap, head, size>>
serveVars == <<wk, conns, fetched>>
vars == <<heap, head, size, held, made, nextCold, last, wk, conns, fetched,
         objSize, mutex, th, rq, rw, proc, acc>>

\* ------------------------------------------------------------ the heap
\* a block that is not allocated: its fields are never read by the code
FreeBlock == [key |-> 0, val |-> ZeroBytes, size |-> 0, next |-> NULL,
              prev |-> NULL, ref |-> 0, alloc |-> FALSE]

\* the cache as a value: the heap of entries, cache->head, cache->size
Cache(h, hd, sz) == [heap |-> h, head |-> hd, size |-> sz]

\* Calloc(1, sizeof(entry_t)): some block that is not in use, zero filled
Calloc(c) == CHOOSE e \in Entries : ~c.heap[e].alloc /\
                \A f \in Entries : ~c.heap[f].alloc => e <= f

HasFree(c) == {e \in Entries : ~c.heap[e].alloc} # {}

\* malloc_with_data without the memcpy: the block stays zero filled
malloc_with_data_no_copy(src, n) == ZeroBytes

\* memset(ret, 0, size); memcpy(ret, src, size): the block holds src's bytes
malloc_with_data(src, n) == src

free_entry(c, e) == [c EXCEPT !.heap[e] = FreeBlock]

RECURSIVE find_from(_, _, _)
find_from(c, curr, key) ==
    IF c.heap[curr].key = key THEN curr
    ELSE LET nxt == c.heap[curr].next
         IN IF nxt # NULL /\ nxt # c.head THEN find_from(c, nxt, key)
            ELSE NULL

\* find that looks at the head of the list only
find_head_only(c, key) ==
    IF c.head = NULL THEN NULL
    ELSE IF c.heap[c.head].key = key THEN c.head ELSE NULL

\* find that starts at the entry after the head
find_skip_head(c, key) ==
    IF c.head = NULL THEN NULL
    ELSE IF c.heap[c.head].next = c.head THEN NULL
    ELSE find_from(c, c.heap[c.head].next, key)

find(c, key) == IF c.head = NULL THEN NULL ELSE find_from(c, c.head, key)

\* insert_front that links the entry in and leaves cache->head where it was,
\* which puts the entry at the tail
insert_front_link_at_tail(c, e) ==
    LET hd == c.head
        linked ==
          IF hd = NULL
            THEN [c.heap EXCEPT ![e].prev = e, ![e].next = e]
            ELSE LET prev == c.heap[hd].prev
                 IN [c.heap EXCEPT ![prev].next = e, ![hd].prev = e,
                                   ![e].next = hd, ![e].prev = prev]
    IN [heap |-> linked, head |-> IF hd = NULL THEN e ELSE hd, size |-> c.size]

\* insert_front up to cache->head = e: the entry is linked in at the front
insert_front_link(c, e) ==
    LET hd == c.head
        linked ==
          IF hd = NULL
            THEN [c.heap EXCEPT ![e].prev = e, ![e].next = e]
            ELSE LET prev == c.heap[hd].prev
                 IN [c.heap EXCEPT ![prev].next = e, ![hd].prev = e,
                                   ![e].next = hd, ![e].prev = prev]
    IN [heap |-> linked, head |-> e, size |-> c.size]

\* the last statement of insert_front counting entries instead of bytes
insert_front_count_entries(c, e) == [c EXCEPT !.size = @ + 1]

\* the last statement of insert_front: cache->size += e->size
insert_front_count(c, e) == [c EXCEPT !.size = @ + c.heap[e].size]

\* insert_front that links the entry in and leaves cache->head on the old head
insert_back(c, e) ==
    LET hd == c.head
        linked ==
          IF hd = NULL
            THEN [c.heap EXCEPT ![e].prev = e, ![e].next = e]
            ELSE LET prev == c.heap[hd].prev
                 IN [c.heap EXCEPT ![prev].next = e, ![hd].prev = e,
                                   ![e].next = hd, ![e].prev = prev]
    IN [heap |-> linked, head |-> IF hd = NULL THEN e ELSE hd,
        size |-> c.size + c.heap[e].size]

insert_front(c, e) ==
    LET hd == c.head
        linked ==
          IF hd = NULL
            THEN [c.heap EXCEPT ![e].prev = e, ![e].next = e]
            ELSE LET prev == c.heap[hd].prev
                 IN [c.heap EXCEPT ![prev].next = e, ![hd].prev = e,
                                   ![e].next = hd, ![e].prev = prev]
    IN [heap |-> linked, head |-> e, size |-> c.size + c.heap[e].size]

\* remove_entry that forgets next->prev = prev
remove_entry_no_back_link(c, e) ==
    LET sole == c.heap[e].next = e
        prev == c.heap[e].prev
        next == c.heap[e].next
        unlinked == IF sole THEN c.heap
                    ELSE [c.heap EXCEPT ![prev].next = next]
        hd1 == IF sole THEN NULL ELSE c.head
        hd2 == IF hd1 = e THEN unlinked[e].next ELSE hd1
    IN [heap |-> [unlinked EXCEPT ![e].prev = NULL, ![e].next = NULL],
        head |-> hd2,
        size |-> c.size - c.heap[e].size]

\* remove_entry that unlinks the entry and leaves cache->size alone
remove_entry_keep_size(c, e) ==
    LET sole == c.heap[e].next = e
        prev == c.heap[e].prev
        next == c.heap[e].next
        unlinked == IF sole THEN c.heap
                    ELSE [c.heap EXCEPT ![prev].next = next,
                                        ![next].prev = prev]
        hd1 == IF sole THEN NULL ELSE c.head
        hd2 == IF hd1 = e THEN unlinked[e].next ELSE hd1
    IN [heap |-> [unlinked EXCEPT ![e].prev = NULL, ![e].next = NULL],
        head |-> hd2,
        size |-> c.size]

remove_entry(c, e) ==
    LET sole == c.heap[e].next = e
        prev == c.heap[e].prev
        next == c.heap[e].next
        unlinked == IF sole THEN c.heap
                    ELSE [c.heap EXCEPT ![prev].next = next,
                                        ![next].prev = prev]
        hd1 == IF sole THEN NULL ELSE c.head
        hd2 == IF hd1 = e THEN unlinked[e].next ELSE hd1
    IN [heap |-> [unlinked EXCEPT ![e].prev = NULL, ![e].next = NULL],
        head |-> hd2,
        size |-> c.size - c.heap[e].size]

\* evict_entry that frees the entry whatever its reference count
evict_entry_free_always(c, e) == free_entry(remove_entry(c, e), e)

evict_entry(c, e) ==
    LET r == remove_entry(c, e)
        d == [r EXCEPT !.heap[e].ref = @ - 1]
    IN IF d.heap[e].ref = 0 THEN free_entry(d, e) ELSE d

RECURSIVE evict_loop(_)
evict_loop(c) ==
    IF c.size > MAX_CACHE_SIZE /\ c.head # NULL
      THEN evict_loop(evict_entry(c, c.heap[c.head].prev))
      ELSE c

\* a new entry that also counts a reference for the caller of cache_insert
NewEntry_caller_ref(key, val, n) ==
    [key |-> key, val |-> malloc_with_data(val, n), size |-> n, next |-> NULL,
     prev |-> NULL, ref |-> 2, alloc |-> TRUE]

\* cache_insert: Calloc, strdup(key), malloc_with_data, ref = 1
NewEntry(key, val, n) ==
    [key |-> key, val |-> malloc_with_data(val, n), size |-> n, next |-> NULL,
     prev |-> NULL, ref |-> 1, alloc |-> TRUE]

\* cache_insert without the eviction loop
cache_insert_no_evict(c, key, val, n) ==
    IF n > MAX_OBJECT_SIZE THEN [cache |-> c, ret |-> NULL]
    ELSE LET e == find(c, key)
         IN IF e = NULL
              THEN LET a == Calloc(c)
                   IN [cache |-> insert_front(
                                   [c EXCEPT !.heap[a] = NewEntry(key, val, n)], a),
                       ret |-> a]
              ELSE [cache |-> insert_front(remove_entry(c, e), e), ret |-> e]

\* cache_insert that overwrites the bytes of an entry already present
cache_insert_overwrite(c, key, val, n) ==
    IF n > MAX_OBJECT_SIZE THEN [cache |-> c, ret |-> NULL]
    ELSE LET e == find(c, key)
         IN IF e = NULL
              THEN LET a == Calloc(c)
                   IN [cache |-> evict_loop(insert_front(
                                   [c EXCEPT !.heap[a] = NewEntry(key, val, n)], a)),
                       ret |-> a]
              ELSE LET m == insert_front(remove_entry(c, e), e)
                   IN [cache |-> [m EXCEPT !.heap[e].val = malloc_with_data(val, n)],
                       ret |-> e]

\* cache_insert without the size check
cache_insert_no_check(c, key, val, n) ==
    LET e == find(c, key)
    IN IF e = NULL
         THEN LET a == Calloc(c)
              IN [cache |-> evict_loop(insert_front(
                              [c EXCEPT !.heap[a] = NewEntry(key, val, n)], a)),
                  ret |-> a]
         ELSE [cache |-> insert_front(remove_entry(c, e), e), ret |-> e]

\* cache_insert that leaves an entry already present where it is
cache_insert_no_promote(c, key, val, n) ==
    IF n > MAX_OBJECT_SIZE THEN [cache |-> c, ret |-> NULL]
    ELSE LET e == find(c, key)
         IN IF e = NULL
              THEN LET a == Calloc(c)
                   IN [cache |-> evict_loop(insert_front(
                                   [c EXCEPT !.heap[a] = NewEntry(key, val, n)], a)),
                       ret |-> a]
              ELSE [cache |-> c, ret |-> e]

\* cache_insert that does not look the key up and always makes a new entry
cache_insert_always_new(c, key, val, n) ==
    IF n > MAX_OBJECT_SIZE THEN [cache |-> c, ret |-> NULL]
    ELSE LET a == Calloc(c)
             fresh == [c EXCEPT !.heap[a] = NewEntry(key, val, n)]
         IN [cache |-> evict_loop(insert_front(fresh, a)), ret |-> a]

\* cache_insert that evicts an entry already present and puts a new entry
\* with the caller's bytes in its place
cache_insert_replace(c, key, val, n) ==
    IF n > MAX_OBJECT_SIZE THEN [cache |-> c, ret |-> NULL]
    ELSE LET e == find(c, key)
             m == IF e = NULL THEN c ELSE evict_entry(c, e)
             a == Calloc(m)
             fresh == [m EXCEPT !.heap[a] = NewEntry(key, val, n)]
         IN [cache |-> evict_loop(insert_front(fresh, a)), ret |-> a]

\* body of cache_insert: the resulting cache and the returned pointer
cache_insert(c, key, val, n) ==
    IF n > MAX_OBJECT_SIZE THEN [cache |-> c, ret |-> NULL]
    ELSE LET e == find(c, key)
         IN IF e = NULL
              THEN LET a == Calloc(c)
                       fresh == [c EXCEPT !.heap[a] = NewEntry(key, val, n)]
                   IN [cache |-> evict_loop(insert_front(fresh, a)),
                       ret |-> a]
              ELSE [cache |-> insert_front(remove_entry(c, e), e),
                    ret |-> e]

\* cache_get that hands out the head of the list whatever the key
cache_get_head(c, key) ==
    LET e == c.head
    IN IF e # NULL
         THEN LET m == insert_front(remove_entry(c, e), e)
              IN [cache |-> [m EXCEPT !.heap[e].ref = @ + 1], ret |-> e]
         ELSE [cache |-> c, ret |-> NULL]

\* cache_get that counts the reference and leaves the entry where it is
cache_get_no_promote(c, key) ==
    LET e == find(c, key)
    IN IF e # NULL
         THEN [cache |-> [c EXCEPT !.heap[e].ref = @ + 1], ret |-> e]
         ELSE [cache |-> c, ret |-> NULL]

cache_get(c, key) ==
    LET e == find(c, key)
    IN IF e # NULL
         THEN LET m == insert_front(remove_entry(c, e), e)
              IN [cache |-> [m EXCEPT !.heap[e].ref = @ + 1], ret |-> e]
         ELSE [cache |-> c, ret |-> NULL]

\* cache_entry_release that drops the reference and never frees the entry
cache_entry_release_no_free(c, e) == [c EXCEPT !.heap[e].ref = @ - 1]

cache_entry_release(c, e) ==
    LET d == [c EXCEPT !.heap[e].ref = @ - 1]
    IN IF d.heap[e].ref = 0 THEN free_entry(d, e) ELSE d

\* ------------------------------------------------------- the cache clients
TheCache == Cache(heap, head, size)

NoCall == [op |-> "none", key |-> 0, size |-> 0, ret |-> NULL]
NotMade == [key |-> 0, val |-> ZeroBytes, size |-> 0]

NumHeld(w) == LET RECURSIVE Sum(_)
                  Sum(S) == IF S = {} THEN 0
                            ELSE LET e == CHOOSE x \in S : TRUE
                                 IN held[w][e] + Sum(S \ {e})
              IN Sum(Entries)

\* made follows the allocator: set when a block is handed out, cleared when freed
Remade(c, r, key, val, n) ==
    [e \in Entries |->
       IF ~c.heap[e].alloc THEN NotMade
       ELSE IF ~heap[e].alloc /\ e = r THEN [key |-> key, val |-> val, size |-> n]
       ELSE made[e]]

\* the connection workers that run at the same time
Workers == {1, 2}

\* pthread_mutex_init: the mutex is free
NoOwner == 0

\* a thread that is outside the cache functions and has made no request
NoThread == [pc |-> "idle", key |-> 0, e |-> NULL, val |-> ZeroBytes, n |-> 0,
             fresh |-> FALSE, handle |-> NULL, ops |-> 0, wrote |-> 0]

\* no connection: nothing read, nothing written
NoRequest == [pc |-> "idle", req |-> "none", err |-> <<>>, reply |-> <<>>,
              ok |-> FALSE, connfd |-> "none", parser |-> "none",
              key |-> NULL, host_fd |-> "none"]

\* no request to rewrite: info is empty, new_req holds nothing
NoInfo == [uri |-> "", host |-> "", port |-> "", version |-> ""]
NoRewrite == [pc |-> "idle", info |-> NoInfo, hdrs |-> <<>>, next |-> 1,
              out |-> <<>>, len |-> 0, host_found |-> FALSE,
              host_fd |-> "none", sent |-> <<>>, connfd |-> "none",
              parser |-> "none"]

\* main before its loop: no client_info allocated, no connection accepted
NoClient == [struct |-> "none", connfd |-> "none", owner |-> "none",
             thread |-> "none"]
NoAcceptor == [pc |-> "malloc", cur |-> 0,
               client |-> [i \in 1..MaxConns |-> NoClient]]

\* a worker slot with no thread in it
NoWorker == [pc |-> "idle", connfd |-> "none", host_fd |-> "none",
             parser |-> "none", uri |-> 0, entry |-> NULL, gets |-> 0,
             rels |-> 0, left |-> 0, rval |-> 0, chunk |-> 0,
             buf |-> [val |-> ZeroBytes, size |-> 0], cache_size |-> 0,
             sent |-> <<>>, connected |-> FALSE, expect |-> <<>>]

Init ==
    /\ heap = [e \in Entries |-> FreeBlock]
    /\ head = NULL
    /\ size = 0
    /\ held = [w \in Clients |-> [e \in Entries |-> 0]]
    /\ made = [e \in Entries |-> NotMade]
    /\ nextCold = 1
    /\ last = NoCall
    /\ wk = [t \in Workers |-> NoWorker]
    /\ conns = 0
    /\ fetched = [u \in HotKeys |-> <<>>]
    /\ objSize = 0
    /\ mutex = NoOwner
    /\ th = [t \in Workers |-> NoThread]
    /\ rq = NoRequest
    /\ rw = NoRewrite
    /\ proc = "running"
    /\ acc = NoAcceptor

\* the clients and workers are scheduled before the streaming thread's run,
\* before its last insert and after it
Quiet == nextCold \in {1, NumCold, NumCold + 1}

\* (the result of a call is bound with \E over a singleton, which makes TLC
\* evaluate it once)
DoInsert(key, val, n) ==
    \E r \in {cache_insert(TheCache, key, val, n)} :
       /\ heap' = r.cache.heap
       /\ head' = r.cache.head
       /\ size' = r.cache.size
       /\ made' = Remade(r.cache, r.ret, key, val, n)
       /\ last' = [op |-> "insert", key |-> key, size |-> n, ret |-> r.ret]

\* some client calls cache_insert
Insert ==
    /\ Quiet
    /\ HasFree(TheCache)
    /\ \E key \in HotKeys, o \in Objects : DoInsert(key, o.val, o.size)
    /\ UNCHANGED <<acc, rw, proc, mutex, th, objSize, rq, held, nextCold, serveVars>>

\* the streaming thread inserts its next key, a response of the largest size
Stream ==
    /\ nextCold <= NumCold
    /\ HasFree(TheCache)
    /\ DoInsert(ColdKey(nextCold), 1, MAX_OBJECT_SIZE)
    /\ nextCold' = nextCold + 1
    /\ UNCHANGED <<acc, rw, proc, mutex, th, objSize, rq, held, serveVars>>

\* a client that holds no handle calls cache_get and keeps the handle: like
\* serve, a client has one handle at a time
Get(w) ==
    /\ Quiet
    /\ NumHeld(w) = 0
    /\ \E key \in HotKeys :
       \E r \in {cache_get(TheCache, key)} :
          /\ heap' = r.cache.heap
          /\ head' = r.cache.head
          /\ size' = r.cache.size
          /\ held' = IF r.ret = NULL THEN held
                     ELSE [held EXCEPT ![w][r.ret] = @ + 1]
          /\ last' = [op |-> "get", key |-> key, size |-> 0, ret |-> r.ret]
          /\ UNCHANGED <<acc, rw, proc, mutex, th, objSize, rq, made, nextCold, serveVars>>

\* a client releases one of its handles
Release(w) ==
    /\ Quiet
    /\ \E e \in Entries :
       /\ held[w][e] > 0
       /\ \E c \in {cache_entry_release(TheCache, e)} :
             /\ heap' = c.heap
             /\ head' = c.head
             /\ size' = c.size
             /\ made' = Remade(c, NULL, 0, ZeroBytes, 0)
       /\ held' = [held EXCEPT ![w][e] = @ - 1]
       /\ last' = [op |-> "release", key |-> heap[e].key, size |-> 0,
                   ret |-> e]
       /\ UNCHANGED <<acc, rw, proc, mutex, th, objSize, rq, nextCold, serveVars>>

Next ==
    \/ Insert
    \/ \E w \in Clients : Get(w)
    \/ \E w \in Clients : Release(w)
    \/ Stream

Spec == Init /\ [][Next]_vars

\* ------------------------------------------------- the connection worker
\* what an origin may answer: its bytes (a token) and their number
Responses == {[val |-> 1, len |-> 0], [val |-> 1, len |-> 1],
              [val |-> 2, len |-> MAX_OBJECT_SIZE],
              [val |-> 1, len |-> MAX_OBJECT_SIZE + 1]}

\* the bytes of the i-th block of a response
Block(rval, i) == rval + 10 * i

\* the first n bytes of buf: the block read last when n is its length,
\* otherwise that block followed by what the buffer held before
BufBytes(buf, n) == IF n = buf.size THEN buf.val ELSE buf.val + 100

\* a read that returns half of what was asked for while more is to come
rio_readnb_short(left, n) == IF left < n THEN left ELSE n \div 2

\* rio_readnb(&rio, buf, n) without an error: n bytes, fewer only at EOF
rio_readnb(left, n) == IF left < n THEN left ELSE n

\* rio_writen that is given sizeof(buf) for the number of bytes
rio_writen_whole_buf(buf, len) ==
    [val |-> BufBytes(buf, MAX_OBJECT_SIZE), size |-> MAX_OBJECT_SIZE]

\* rio_writen(client_fd, buf, len) without an error: what the client
\* receives, the first len bytes of buf
rio_writen(buf, len) == [val |-> BufBytes(buf, len), size |-> len]

\* the cache decision that leaves out the upper limit
should_cache_any_size(cache_size) == cache_size > 0

\* forward_http_response: cache the response if not too large
should_cache(cache_size) == cache_size <= MAX_OBJECT_SIZE /\ cache_size > 0

\* the hit path that leaves the loop when the write failed
after_cached_write_break(ok) == IF ok THEN "release" ELSE "cleanup"

\* serve: after rio_writen of the cached bytes, the entry is released
after_cached_write(ok) == "release"

\* fetched keeps a key only while an entry of that key is in the list
Forget(c, f) == [u \in HotKeys |-> IF find(c, u) = NULL THEN <<>> ELSE f[u]]

Set(t, w) == wk' = [wk EXCEPT ![t] = w]

\* the worker leaves the do-while and writes an error page to the client
Break_with_reply(w) ==
    [w EXCEPT !.pc = "cleanup", !.left = 0, !.rval = 0, !.chunk = 0,
              !.buf = [val |-> ZeroBytes, size |-> 0], !.cache_size = 0,
              !.sent = Append(@, [val |-> 500, size |-> 1])]

\* the worker leaves the do-while: the locals of the loop body are dead
Break(w) == [w EXCEPT !.pc = "cleanup", !.left = 0, !.rval = 0, !.chunk = 0,
                      !.buf = [val |-> ZeroBytes, size |-> 0],
                      !.cache_size = 0]

\* main: accept() and pthread_create(serve), once the slot's last thread
\* has returned
Accept(t) ==
    /\ Quiet
    /\ wk[t].pc \in {"idle", "done"}
    /\ conns < MaxConns
    /\ conns' = conns + 1
    /\ Set(t, [NoWorker EXCEPT !.pc = "detach", !.connfd = "open"])
    /\ UNCHANGED <<acc, rw, proc, mutex, th, objSize, rq, cacheVars, held, made, nextCold, last, fetched>>

\* serve: pthread_detach, then parser_new
Detach(t) ==
    /\ Quiet
    /\ wk[t].pc = "detach"
    /\ \E ok \in BOOLEAN :
          Set(t, IF ok THEN [wk[t] EXCEPT !.pc = "parse", !.parser = "live"]
                 ELSE [wk[t] EXCEPT !.pc = "done"])
    /\ UNCHANGED <<acc, rw, proc, mutex, th, objSize, rq, cacheVars, held, made, nextCold, last, conns, fetched>>

\* serve: parse_http_request, which fails or fills info
Parse(t) ==
    /\ Quiet
    /\ wk[t].pc = "parse"
    /\ \/ Set(t, Break(wk[t]))
       \/ \E u \in HotKeys : Set(t, [wk[t] EXCEPT !.pc = "get", !.uri = u])
    /\ UNCHANGED <<acc, rw, proc, mutex, th, objSize, rq, cacheVars, held, made, nextCold, last, conns, fetched>>

\* serve: cache_get(g_cache, info.uri); on a miss construct_new_request
Lookup(t) ==
    /\ Quiet
    /\ wk[t].pc = "get"
    /\ \E r \in {cache_get(TheCache, wk[t].uri)} :
       /\ heap' = r.cache.heap
       /\ head' = r.cache.head
       /\ size' = r.cache.size
       /\ Set(t, IF r.ret # NULL
                   THEN [wk[t] EXCEPT !.pc = "hit", !.entry = r.ret, !.gets = 1,
                                      !.expect = fetched[wk[t].uri]]
                   ELSE [wk[t] EXCEPT !.pc = "connect",
                                      !.expect = fetched[wk[t].uri]])
       /\ UNCHANGED <<acc, rw, proc, mutex, th, objSize, rq, held, made, nextCold, last, conns, fetched>>

\* serve: rio_writen(client.connfd, entry->val, entry->size)
WriteCached(t) ==
    /\ Quiet
    /\ wk[t].pc = "hit"
    /\ \E ok \in BOOLEAN :
          Set(t, [wk[t] EXCEPT
                    !.pc = after_cached_write(ok),
                    !.sent = IF ok THEN <<[val |-> heap[wk[t].entry].val,
                                           size |-> heap[wk[t].entry].size]>>
                             ELSE @])
    /\ UNCHANGED <<acc, rw, proc, mutex, th, objSize, rq, cacheVars, held, made, nextCold, last, conns, fetched>>

\* serve: cache_entry_release(g_cache, entry)
ReleaseEntry(t) ==
    /\ Quiet
    /\ wk[t].pc = "release"
    /\ \E e \in {wk[t].entry} : \E c \in {cache_entry_release(TheCache, e)} :
       /\ heap' = c.heap
       /\ head' = c.head
       /\ size' = c.size
       /\ made' = Remade(c, NULL, 0, ZeroBytes, 0)
       /\ Set(t, Break([wk[t] EXCEPT !.rels = @ + 1]))
       /\ UNCHANGED <<acc, rw, proc, mutex, th, objSize, rq, held, nextCold, last, conns, fetched>>

\* serve: open_clientfd(info.host, info.port)
Connect(t) ==
    /\ Quiet
    /\ wk[t].pc = "connect"
    /\ \/ Set(t, Break(wk[t]))
       \/ \E r \in Responses :
             Set(t, [wk[t] EXCEPT !.pc = "send", !.host_fd = "open",
                                  !.connected = TRUE, !.left = r.len,
                                  !.rval = r.val])
    /\ UNCHANGED <<acc, rw, proc, mutex, th, objSize, rq, cacheVars, held, made, nextCold, last, conns, fetched>>

\* serve: rio_writen(host_fd, new_req, strlen(new_req))
SendRequest(t) ==
    /\ Quiet
    /\ wk[t].pc = "send"
    /\ \E ok \in BOOLEAN :
          Set(t, IF ok THEN [wk[t] EXCEPT !.pc = "read"] ELSE Break(wk[t]))
    /\ UNCHANGED <<acc, rw, proc, mutex, th, objSize, rq, cacheVars, held, made, nextCold, last, conns, fetched>>

\* forward_http_response: rio_readnb from the origin, then the cache decision
\* at EOF
ReadOrigin(t) ==
    LET n == rio_readnb(wk[t].left, MAX_OBJECT_SIZE)
    IN /\ Quiet
       /\ wk[t].pc = "read"
       /\ \/ Set(t, Break(wk[t]))
          \/ Set(t, IF n = 0
                      THEN IF should_cache(wk[t].cache_size)
                             THEN [wk[t] EXCEPT !.pc = "insert"]
                             ELSE Break(wk[t])
                      ELSE [wk[t] EXCEPT
                              !.pc = "write",
                              !.buf = [val |-> Block(wk[t].rval, wk[t].chunk),
                                       size |-> n],
                              !.left = @ - n,
                              !.chunk = @ + 1])
       /\ UNCHANGED <<acc, rw, proc, mutex, th, objSize, rq, cacheVars, held, made, nextCold, last, conns, fetched>>

\* forward_http_response: rio_writen(client_fd, buf, len); cache_size += len
WriteClient(t) ==
    /\ Quiet
    /\ wk[t].pc = "write"
    /\ \E ok \in BOOLEAN :
          Set(t, IF ok THEN [wk[t] EXCEPT !.pc = "read",
                                          !.sent = Append(@, rio_writen(wk[t].buf,
                                                                        wk[t].buf.size)),
                                          !.cache_size = @ + wk[t].buf.size]
                 ELSE Break(wk[t]))
    /\ UNCHANGED <<acc, rw, proc, mutex, th, objSize, rq, cacheVars, held, made, nextCold, last, conns, fetched>>

\* forward_http_response: cache_insert(g_cache, cache_key, buf, cache_size)
CacheResponse(t) ==
    /\ Quiet
    /\ wk[t].pc = "insert"
    /\ HasFree(TheCache)
    /\ \E u \in {wk[t].uri}, n \in {wk[t].cache_size} :
       \E r \in {cache_insert(TheCache, u, BufBytes(wk[t].buf, n), n)} :
       LET created == r.ret # NULL /\ ~heap[r.ret].alloc IN
       /\ heap' = r.cache.heap
       /\ head' = r.cache.head
       /\ size' = r.cache.size
       /\ made' = Remade(r.cache, r.ret, u, BufBytes(wk[t].buf, n), n)
       /\ fetched' = Forget(r.cache, IF created
                                       THEN [fetched EXCEPT ![u] = wk[t].sent]
                                       ELSE fetched)
       /\ Set(t, Break(wk[t]))
       /\ UNCHANGED <<acc, rw, proc, mutex, th, objSize, rq, held, nextCold, last, conns>>

\* serve: parser_free(p); close(client.connfd); return NULL
Cleanup(t) ==
    /\ Quiet
    /\ wk[t].pc = "cleanup"
    /\ Set(t, [wk[t] EXCEPT !.pc = "done", !.parser = "freed",
                            !.connfd = "closed"])
    /\ UNCHANGED <<acc, rw, proc, mutex, th, objSize, rq, cacheVars, held, made, nextCold, last, conns, fetched>>

\* other connections fill the cache: the streaming thread's inserts, which
\* start between two connections of the workers
Fill ==
    /\ nextCold <= NumCold
    /\ nextCold = 1 => \A t \in Workers : wk[t].pc \in {"idle", "done"}
    /\ HasFree(TheCache)
    /\ \E r \in {cache_insert(TheCache, ColdKey(nextCold), 1, MAX_OBJECT_SIZE)} :
       /\ heap' = r.cache.heap
       /\ head' = r.cache.head
       /\ size' = r.cache.size
       /\ made' = Remade(r.cache, r.ret, ColdKey(nextCold), 1, MAX_OBJECT_SIZE)
       /\ nextCold' = nextCold + 1
       /\ fetched' = Forget(r.cache, fetched)
       /\ UNCHANGED <<acc, rw, proc, mutex, th, objSize, rq, held, last, wk, conns>>

ServeNext ==
    \/ \E t \in Workers : Accept(t)
    \/ \E t \in Workers : Detach(t)
    \/ \E t \in Workers : Parse(t)
    \/ \E t \in Workers : Lookup(t)
    \/ \E t \in Workers : WriteCached(t)
    \/ \E t \in Workers : ReleaseEntry(t)
    \/ \E t \in Workers : Connect(t)
    \/ \E t \in Workers : SendRequest(t)
    \/ \E t \in Workers : ReadOrigin(t)
    \/ \E t \in Workers : WriteClient(t)
    \/ \E t \in Workers : CacheResponse(t)
    \/ \E t \in Workers : Cleanup(t)
    \/ Fill

ServeSpec == Init /\ [][ServeNext]_vars

\* ------------------------------------------------- the eviction scenario
\* One thread inserts the keys k0, k1, ... in order into the empty cache, all
\* with objects of one size, and then looks some of them up.
\* the sizes of the scenario's objects
ScenSizes == {1, MAX_OBJECT_SIZE \div 2, 90 * 1024, MAX_OBJECT_SIZE,
              MAX_OBJECT_SIZE + 1, 2 * MAX_OBJECT_SIZE}

\* the key k_i of the scenario and its bytes
ScenKey(i) == ColdKey(i + 1)
ScenBytes(i) == 100 + i

\* the keys that are looked up: k0, k6 and k10
Probes == {0, 6, 10}

\* the thread of the scenario
ScenClient == 1

\* cache_insert(cache, k_i, bytes_i, objSize), for i = nextCold - 1
ScenInsert ==
    /\ nextCold <= NumScen
    /\ last.op \in {"none", "insert"}
    /\ HasFree(TheCache)
    /\ \E n \in (IF nextCold = 1 THEN ScenSizes ELSE {objSize}) :
          /\ DoInsert(ScenKey(nextCold - 1), ScenBytes(nextCold - 1), n)
          /\ objSize' = n
    /\ nextCold' = nextCold + 1
    /\ UNCHANGED <<acc, rw, proc, rq, mutex, th, held, serveVars>>

\* cache_get(cache, k_i) for one of the keys looked up
ScenGet ==
    /\ nextCold > 1
    /\ NumHeld(ScenClient) = 0
    /\ \E i \in Probes :
       \E r \in {cache_get(TheCache, ScenKey(i))} :
          /\ heap' = r.cache.heap
          /\ head' = r.cache.head
          /\ size' = r.cache.size
          /\ held' = IF r.ret = NULL THEN held
                     ELSE [held EXCEPT ![ScenClient][r.ret] = @ + 1]
          /\ last' = [op |-> "get", key |-> ScenKey(i), size |-> 0,
                      ret |-> r.ret]
    /\ UNCHANGED <<acc, rw, proc, mutex, th, objSize, rq, made, nextCold, serveVars>>

\* cache_entry_release(cache, e) of the handle the thread holds
ScenRelease ==
    /\ \E e \in Entries :
       /\ held[ScenClient][e] > 0
       /\ \E c \in {cache_entry_release(TheCache, e)} :
             /\ heap' = c.heap
             /\ head' = c.head
             /\ size' = c.size
             /\ made' = Remade(c, NULL, 0, ZeroBytes, 0)
       /\ held' = [held EXCEPT ![ScenClient][e] = @ - 1]
       /\ last' = [op |-> "release", key |-> heap[e].key, size |-> 0,
                   ret |-> e]
    /\ UNCHANGED <<acc, rw, proc, mutex, th, objSize, rq, nextCold, serveVars>>

ScenNext == ScenInsert \/ ScenGet \/ ScenRelease

ScenarioSpec == Init /\ [][ScenNext]_vars

\* ------------------------------------------- inserts of one key that race
\* Each worker calls cache_insert once, all for the same key, which the cache
\* does not hold, each with bytes of its own and a size of its choice; the
\* calls run in any order.  Afterwards a client looks the key up.  Before
\* the workers start the streaming thread may fill the cache.
RaceKey == 1
RaceBytes(t) == 10 + t
RaceSizes == {1, 2, MAX_OBJECT_SIZE, MAX_OBJECT_SIZE + 1}
RaceClient == 1

\* the worker has its bytes and their size in hand
RaceStart(t) ==
    /\ wk[t].pc = "idle"
    /\ nextCold \in {1, NumCold + 1}
    /\ \E n \in RaceSizes :
          Set(t, [wk[t] EXCEPT !.pc = "insert", !.uri = RaceKey,
                               !.buf = [val |-> RaceBytes(t), size |-> n],
                               !.cache_size = n])
    /\ UNCHANGED <<acc, rw, proc, mutex, th, objSize, rq, cacheVars, held, made, nextCold, last, conns, fetched>>

\* entry = cache_insert(cache, key, buf, cache_size)
RaceInsert(t) ==
    /\ wk[t].pc = "insert"
    /\ HasFree(TheCache)
    /\ DoInsert(wk[t].uri, wk[t].buf.val, wk[t].cache_size)
    /\ \E r \in {cache_insert(TheCache, wk[t].uri, wk[t].buf.val,
                              wk[t].cache_size)} :
          Set(t, [wk[t] EXCEPT !.pc = "done", !.entry = r.ret])
    /\ UNCHANGED <<acc, rw, proc, mutex, th, objSize, rq, held, nextCold, conns, fetched>>

RaceOver == \A t \in Workers : wk[t].pc = "done"

\* cache_get(cache, key) once every worker has returned
RaceGet ==
    /\ RaceOver
    /\ NumHeld(RaceClient) = 0
    /\ \E r \in {cache_get(TheCache, RaceKey)} :
          /\ heap' = r.cache.heap
          /\ head' = r.cache.head
          /\ size' = r.cache.size
          /\ held' = IF r.ret = NULL THEN held
                     ELSE [held EXCEPT ![RaceClient][r.ret] = @ + 1]
          /\ last' = [op |-> "get", key |-> RaceKey, size |-> 0, ret |-> r.ret]
    /\ UNCHANGED <<acc, rw, proc, mutex, th, objSize, rq, made, nextCold, serveVars>>

\* cache_entry_release(cache, e) of the handle the client holds
RaceRelease ==
    /\ \E e \in Entries :
       /\ held[RaceClient][e] > 0
       /\ \E c \in {cache_entry_release(TheCache, e)} :
             /\ heap' = c.heap
             /\ head' = c.head
             /\ size' = c.size
             /\ made' = Remade(c, NULL, 0, ZeroBytes, 0)
       /\ held' = [held EXCEPT ![RaceClient][e] = @ - 1]
       /\ last' = [op |-> "release", key |-> heap[e].key, size |-> 0,
                   ret |-> e]
    /\ UNCHANGED <<acc, rw, proc, mutex, th, objSize, rq, nextCold, serveVars>>

\* the streaming thread fills the cache before the workers start
RaceFill ==
    /\ \A t \in Workers : wk[t].pc = "idle"
    /\ Stream

RaceNext ==
    \/ \E t \in Workers : RaceStart(t)
    \/ \E t \in Workers : RaceInsert(t)
    \/ RaceGet
    \/ RaceRelease
    \/ RaceFill

RaceSpec == Init /\ [][RaceNext]_vars

\* ------------------------------------- the cache functions, step by step
\* The threads of serve run the cache functions statement by statement:
\* cache_mutex_lock, the statements of the body, cache_mutex_unlock, and
\* between the calls the socket I/O of serve and forward_http_response.
\* Before the threads start the streaming thread may fill the cache.
MaxOps == 2          \* requests one thread serves

\* the statements between cache_mutex_lock and cache_mutex_unlock
Locked == {"get_find", "get_link", "get_count", "get_ref", "get_unlock",
           "rel_body", "rel_unlock", "ins_find", "ins_link", "ins_count",
           "ins_evict", "ins_unlock"}

\* pthread_mutex_lock that returns without waiting for the owner
can_lock_always(m) == TRUE

\* pthread_mutex_lock returns once no thread holds the mutex
can_lock(m) == m = NoOwner

\* cache_get that returns without unlocking when it found the entry
after_cache_get_keep_lock(found) == IF found THEN "write_cached" ELSE "get_unlock"

\* cache_get: after the body, cache_mutex_unlock
after_cache_get(found) == "get_unlock"

SetTh(t, r) == th' = [th EXCEPT ![t] = r]

SetCache(c) == heap' = c.heap /\ head' = c.head /\ size' = c.size

\* serve: a request for a URI arrives; cache_get is called
LkRequest(t) ==
    /\ th[t].pc = "idle"
    /\ th[t].ops < MaxOps
    /\ \E u \in HotKeys :
          SetTh(t, [th[t] EXCEPT !.pc = "get_lock", !.key = u, !.ops = @ + 1])
    /\ UNCHANGED <<acc, rw, proc, cacheVars, mutex, objSize, rq, held, made, nextCold, last, serveVars>>

\* cache_mutex_lock in cache_get, cache_entry_release and cache_insert
cache_mutex_lock(t) ==
    /\ th[t].pc \in {"get_lock", "rel_lock", "ins_lock"}
    /\ can_lock(mutex)
    /\ mutex' = t
    /\ SetTh(t, [th[t] EXCEPT !.pc = CASE @ = "get_lock" -> "get_find"
                                       [] @ = "rel_lock" -> "rel_body"
                                       [] @ = "ins_lock" -> "ins_find"])
    /\ UNCHANGED <<acc, rw, proc, cacheVars, objSize, rq, held, made, nextCold, last, serveVars>>

\* cache_get: ret = find(cache, key); if (ret) remove_entry(cache, ret)
LkGetFind(t) ==
    /\ th[t].pc = "get_find"
    /\ \E e \in {find(TheCache, th[t].key)} :
          IF e = NULL
            THEN /\ SetTh(t, [th[t] EXCEPT !.pc = after_cache_get(FALSE),
                                           !.e = NULL])
                 /\ UNCHANGED cacheVars
            ELSE /\ SetCache(remove_entry(TheCache, e))
                 /\ SetTh(t, [th[t] EXCEPT !.pc = "get_link", !.e = e])
    /\ UNCHANGED <<acc, rw, proc, mutex, objSize, rq, held, made, nextCold, last, serveVars>>

\* insert_front, the pointers and cache->head
LkLink(t) ==
    /\ th[t].pc \in {"get_link", "ins_link"}
    /\ SetCache(insert_front_link(TheCache, th[t].e))
    /\ SetTh(t, [th[t] EXCEPT !.pc = IF @ = "get_link" THEN "get_count"
                                     ELSE "ins_count"])
    /\ UNCHANGED <<acc, rw, proc, mutex, objSize, rq, held, made, nextCold, last, serveVars>>

\* insert_front, cache->size += e->size
LkCount(t) ==
    /\ th[t].pc \in {"get_count", "ins_count"}
    /\ SetCache(insert_front_count(TheCache, th[t].e))
    /\ SetTh(t, [th[t] EXCEPT !.pc = IF @ = "get_count" THEN "get_ref"
                                     ELSE IF th[t].fresh THEN "ins_evict"
                                     ELSE "ins_unlock"])
    /\ UNCHANGED <<acc, rw, proc, mutex, objSize, rq, held, made, nextCold, last, serveVars>>

\* cache_get: ++ret->ref
LkGetRef(t) ==
    /\ th[t].pc = "get_ref"
    /\ heap' = [heap EXCEPT ![th[t].e].ref = @ + 1]
    /\ SetTh(t, [th[t] EXCEPT !.pc = after_cache_get(TRUE), !.handle = th[t].e])
    /\ UNCHANGED <<acc, rw, proc, head, size, mutex, objSize, rq, held, made, nextCold, last, serveVars>>

\* cache_mutex_unlock that returns without releasing the mutex
cache_mutex_unlock_keep(t) ==
    /\ th[t].pc \in {"get_unlock", "rel_unlock", "ins_unlock"}
    /\ mutex' = mutex
    /\ SetTh(t, [th[t] EXCEPT
                   !.pc = IF @ = "get_unlock"
                            THEN IF th[t].handle # NULL THEN "write_cached"
                                 ELSE "fetch"
                          ELSE "idle",
                   !.e = NULL, !.fresh = FALSE, !.val = ZeroBytes, !.n = 0])
    /\ UNCHANGED <<acc, rw, proc, cacheVars, objSize, rq, held, made, nextCold, last, serveVars>>

\* cache_mutex_unlock, and the return to serve or forward_http_response
cache_mutex_unlock(t) ==
    /\ th[t].pc \in {"get_unlock", "rel_unlock", "ins_unlock"}
    /\ mutex' = NoOwner
    /\ SetTh(t, [th[t] EXCEPT
                   !.pc = IF @ = "get_unlock"
                            THEN IF th[t].handle # NULL THEN "write_cached"
                                 ELSE "fetch"
                          ELSE "idle",
                   !.e = NULL, !.fresh = FALSE, !.val = ZeroBytes, !.n = 0])
    /\ UNCHANGED <<acc, rw, proc, cacheVars, objSize, rq, held, made, nextCold, last, serveVars>>

\* serve: rio_writen(client.connfd, entry->val, entry->size), then
\* cache_entry_release is called
LkWriteCached(t) ==
    /\ th[t].pc = "write_cached"
    /\ SetTh(t, [th[t] EXCEPT !.pc = "rel_lock", !.wrote = @ + 1])
    /\ UNCHANGED <<acc, rw, proc, cacheVars, mutex, objSize, rq, held, made, nextCold, last, serveVars>>

\* cache_entry_release: if (--e->ref == 0) free_entry(e)
LkRelease(t) ==
    /\ th[t].pc = "rel_body"
    /\ \E c \in {cache_entry_release(TheCache, th[t].handle)} :
          /\ SetCache(c)
          /\ made' = Remade(c, NULL, 0, ZeroBytes, 0)
    /\ SetTh(t, [th[t] EXCEPT !.pc = "rel_unlock", !.handle = NULL])
    /\ UNCHANGED <<acc, rw, proc, mutex, objSize, rq, held, nextCold, last, serveVars>>

\* serve and forward_http_response on a miss: the request goes to the origin
\* and the response to the client; cache_insert is called if it is to be
\* cached and passes the size check
LkFetch(t) ==
    /\ th[t].pc = "fetch"
    /\ \E r \in Responses :
          SetTh(t, IF should_cache(r.len)
                     THEN [th[t] EXCEPT !.pc = "ins_lock", !.val = r.val,
                                        !.n = r.len, !.wrote = @ + 1]
                     ELSE [th[t] EXCEPT !.pc = "idle", !.wrote = @ + 1])
    /\ UNCHANGED <<acc, rw, proc, cacheVars, mutex, objSize, rq, held, made, nextCold, last, serveVars>>

\* cache_insert: e = find(cache, key); a new entry is made, an old one removed
LkInsFind(t) ==
    /\ th[t].pc = "ins_find"
    /\ HasFree(TheCache)
    /\ \E e \in {find(TheCache, th[t].key)} :
          IF e = NULL
            THEN \E a \in {Calloc(TheCache)} :
                 /\ heap' = [heap EXCEPT ![a] = NewEntry(th[t].key, th[t].val,
                                                         th[t].n)]
                 /\ made' = [made EXCEPT ![a] = [key |-> th[t].key,
                                                 val |-> th[t].val,
                                                 size |-> th[t].n]]
                 /\ SetTh(t, [th[t] EXCEPT !.pc = "ins_link", !.e = a,
                                           !.fresh = TRUE])
                 /\ UNCHANGED <<head, size>>
            ELSE /\ SetCache(remove_entry(TheCache, e))
                 /\ SetTh(t, [th[t] EXCEPT !.pc = "ins_link", !.e = e,
                                           !.fresh = FALSE])
                 /\ UNCHANGED made
    /\ UNCHANGED <<acc, rw, proc, mutex, objSize, rq, held, nextCold, last, serveVars>>

\* cache_insert: one turn of the eviction loop, or its end
LkEvict(t) ==
    /\ th[t].pc = "ins_evict"
    /\ IF size > MAX_CACHE_SIZE /\ head # NULL
         THEN \E c \in {evict_entry(TheCache, heap[head].prev)} :
              /\ SetCache(c)
              /\ made' = Remade(c, NULL, 0, ZeroBytes, 0)
              /\ UNCHANGED th
         ELSE /\ SetTh(t, [th[t] EXCEPT !.pc = "ins_unlock"])
              /\ UNCHANGED <<cacheVars, made>>
    /\ UNCHANGED <<acc, rw, proc, mutex, objSize, rq, held, nextCold, last, serveVars>>

\* the streaming thread fills the cache before the threads start
LkFill ==
    /\ \A t \in Workers : th[t] = NoThread
    /\ Stream

LockNext ==
    \/ \E t \in Workers : LkRequest(t)
    \/ \E t \in Workers : cache_mutex_lock(t)
    \/ \E t \in Workers : LkGetFind(t)
    \/ \E t \in Workers : LkLink(t)
    \/ \E t \in Workers : LkCount(t)
    \/ \E t \in Workers : LkGetRef(t)
    \/ \E t \in Workers : cache_mutex_unlock(t)
    \/ \E t \in Workers : LkWriteCached(t)
    \/ \E t \in Workers : LkRelease(t)
    \/ \E t \in Workers : LkFetch(t)
    \/ \E t \in Workers : LkInsFind(t)
    \/ \E t \in Workers : LkEvict(t)
    \/ LkFill

LockSpec == Init /\ [][LockNext]_vars

\* the statements of cache_insert, cache_get and cache_entry_release, from
\* the call of cache_mutex_lock to the return
InCache == Locked \cup {"get_lock", "rel_lock", "ins_lock"}

\* one statement of thread t inside a cache function
CacheStep(t) ==
    \/ cache_mutex_lock(t)
    \/ LkGetFind(t)
    \/ LkLink(t)
    \/ LkCount(t)
    \/ LkGetRef(t)
    \/ LkRelease(t)
    \/ LkInsFind(t)
    \/ LkEvict(t)
    \/ cache_mutex_unlock(t)

\* a request arrives when the cache is as created or has just been filled
LkFairRequest(t) ==
    /\ nextCold \in {1, NumCold + 1}
    /\ LkRequest(t)

LockFairNext ==
    \/ \E t \in Workers : LkFairRequest(t)
    \/ \E t \in Workers : CacheStep(t)
    \/ \E t \in Workers : LkWriteCached(t)
    \/ \E t \in Workers : LkFetch(t)
    \/ LkFill

\* every thread that is inside a cache function and can take a step is
\* scheduled in the end; the requests of a thread are finite, so a thread
\* waiting for the mutex finds it free for good once the others are done
LockFairSpec ==
    Init /\ [][LockFairNext]_vars /\ \A t \in Workers : WF_vars(CacheStep(t))

\* ------------------------------------------------- parsing the request
\* What a client may send, as parse_http_request sees it: how the reading of
\* the lines ends, and what parser_retrieve gives for each field ("none":
\* the field was not parsed).  rest stands for the URI, host, port and path.
\* The reading ends with a read error, with no line at all, with the empty
\* line or EOF after lines that all parsed, or with a line for which
\* parser_parse_line returns ERROR: the first line, or a later one.
Requests ==
    [lines : {"readerr", "empty", "some", "error_first", "error_later"},
     version : {"1.0", "1.1", "2.0", "none"},
     method : {"GET", "POST", "none"},
     scheme : {"http", "https", "none"},
     rest : BOOLEAN]

\* n, the total number of chars parsed: a line is added to it after
\* parser_parse_line accepted it, so the line that gave ERROR is not counted
ParsedBytes(r) == IF r.lines \in {"some", "error_later"} THEN 1 ELSE 0

\* parse_http_request returned false without a reply, or true
NoError == <<>>

\* the arguments of a call of clienterror
Error(errnum, shortmsg, longmsg) == <<errnum, shortmsg, longmsg>>

\* parse_http_request that checks the method before the version
parse_http_request_method_first(r) ==
    IF r.lines = "readerr" THEN [ok |-> FALSE, err |-> NoError]
    ELSE IF ParsedBytes(r) = 0 THEN [ok |-> FALSE, err |-> NoError]
    ELSE IF r.method = "none"
      THEN [ok |-> FALSE,
            err |-> Error("400", "Bad Request", "Cannot parse HTTP method")]
    ELSE IF r.method # "GET"
      THEN [ok |-> FALSE,
            err |-> Error("501", "Not Implemented", "HTTP method not implemented")]
    ELSE IF r.version = "none"
      THEN [ok |-> FALSE,
            err |-> Error("400", "Bad Request", "Cannot parse HTTP version")]
    ELSE IF r.version \notin {"1.0", "1.1"}
      THEN [ok |-> FALSE,
            err |-> Error("400", "Bad Request", "Wrong HTTP version")]
    ELSE IF r.scheme = "none"
      THEN [ok |-> FALSE,
            err |-> Error("400", "Bad Request", "Cannot parse HTTP scheme")]
    ELSE IF r.scheme # "http"
      THEN [ok |-> FALSE,
            err |-> Error("501", "Not Implemented", "HTTP scheme not implemented")]
    ELSE IF ~r.rest
      THEN [ok |-> FALSE, err |-> Error("400", "Bad Request", "Cannot parse uri")]
    ELSE [ok |-> TRUE, err |-> NoError]

\* parse_http_request without the check of the scheme
parse_http_request_any_scheme(r) ==
    IF r.lines = "readerr" THEN [ok |-> FALSE, err |-> NoError]
    ELSE IF ParsedBytes(r) = 0 THEN [ok |-> FALSE, err |-> NoError]
    ELSE IF r.version = "none"
      THEN [ok |-> FALSE,
            err |-> Error("400", "Bad Request", "Cannot parse HTTP version")]
    ELSE IF r.version \notin {"1.0", "1.1"}
      THEN [ok |-> FALSE,
            err |-> Error("400", "Bad Request", "Wrong HTTP version")]
    ELSE IF r.method = "none"
      THEN [ok |-> FALSE,
            err |-> Error("400", "Bad Request", "Cannot parse HTTP method")]
    ELSE IF r.method # "GET"
      THEN [ok |-> FALSE,
            err |-> Error("501", "Not Implemented", "HTTP method not implemented")]
    ELSE IF ~r.rest
      THEN [ok |-> FALSE, err |-> Error("400", "Bad Request", "Cannot parse uri")]
    ELSE [ok |-> TRUE, err |-> NoError]

\* parse_http_request: the lines are read, then the version, the method, the
\* scheme and the rest are retrieved and checked, in this order
parse_http_request(r) ==
    IF r.lines = "readerr" THEN [ok |-> FALSE, err |-> NoError]
    ELSE IF ParsedBytes(r) = 0 THEN [ok |-> FALSE, err |-> NoError]
    ELSE IF r.version = "none"
      THEN [ok |-> FALSE,
            err |-> Error("400", "Bad Request", "Cannot parse HTTP version")]
    ELSE IF r.version \notin {"1.0", "1.1"}
      THEN [ok |-> FALSE,
            err |-> Error("400", "Bad Request", "Wrong HTTP version")]
    ELSE IF r.method = "none"
      THEN [ok |-> FALSE,
            err |-> Error("400", "Bad Request", "Cannot parse HTTP method")]
    ELSE IF r.method # "GET"
      THEN [ok |-> FALSE,
            err |-> Error("501", "Not Implemented", "HTTP method not implemented")]
    ELSE IF r.scheme = "none"
      THEN [ok |-> FALSE,
            err |-> Error("400", "Bad Request", "Cannot parse HTTP scheme")]
    ELSE IF r.scheme # "http"
      THEN [ok |-> FALSE,
            err |-> Error("501", "Not Implemented", "HTTP scheme not implemented")]
    ELSE IF ~r.rest
      THEN [ok |-> FALSE, err |-> Error("400", "Bad Request", "Cannot parse uri")]
    ELSE [ok |-> TRUE, err |-> NoError]

\* clienterror: the status line "HTTP/1.0 <errnum> <shortmsg>" with the
\* headers, and the body
StatusLine(err) == <<"HTTP/1.0", err[1], err[2]>>
ErrorBody(err) == <<"html", err[1], err[2], err[3]>>

\* main and serve: a connection is accepted, the parser is made
PsAccept ==
    /\ rq.pc = "idle"
    /\ \E r \in Requests :
          rq' = [NoRequest EXCEPT !.pc = "parse", !.req = r, !.connfd = "open",
                                  !.parser = "live"]
    /\ UNCHANGED <<acc, rw, proc, cacheVars, held, made, nextCold, last, serveVars, objSize,
                   mutex, th>>

\* serve: parse_http_request up to its first clienterror or its return
PsParse ==
    /\ rq.pc = "parse"
    /\ \E p \in {parse_http_request(rq.req)} :
          rq' = [rq EXCEPT !.ok = p.ok, !.err = p.err,
                           !.pc = IF p.err # NoError THEN "headers"
                                  ELSE IF p.ok THEN "serve" ELSE "cleanup"]
    /\ UNCHANGED <<acc, rw, proc, cacheVars, held, made, nextCold, last, serveVars, objSize,
                   mutex, th>>

\* clienterror: rio_writen of the headers
PsWriteHeaders ==
    /\ rq.pc = "headers"
    /\ \E sent \in BOOLEAN :
          rq' = IF sent THEN [rq EXCEPT !.pc = "body",
                                        !.reply = <<StatusLine(rq.err)>>]
                ELSE [rq EXCEPT !.pc = "cleanup"]
    /\ UNCHANGED <<acc, rw, proc, cacheVars, held, made, nextCold, last, serveVars, objSize,
                   mutex, th>>

\* clienterror: rio_writen of the body
PsWriteBody ==
    /\ rq.pc = "body"
    /\ \E sent \in BOOLEAN :
          rq' = [rq EXCEPT !.pc = "cleanup",
                           !.reply = IF sent THEN Append(@, ErrorBody(rq.err))
                                     ELSE @]
    /\ UNCHANGED <<acc, rw, proc, cacheVars, held, made, nextCold, last, serveVars, objSize,
                   mutex, th>>

\* serve: the request parsed.  cache_get(g_cache, info.uri); on a hit the
\* cached bytes are written and the entry is released; on a miss the origin
\* is connected to, its response is forwarded and, if it is to be cached,
\* passed to cache_insert
PsServe ==
    /\ rq.pc = "serve"
    /\ HasFree(TheCache)
    /\ \E u \in HotKeys : \E g \in {cache_get(TheCache, u)} :
          IF g.ret # NULL
            THEN /\ SetCache(cache_entry_release(g.cache, g.ret))
                 /\ made' = made
                 /\ rq' = [rq EXCEPT !.pc = "cleanup", !.key = u,
                                     !.reply = <<<<"response">>>>]
            ELSE \/ /\ UNCHANGED <<cacheVars, made>>
                    /\ rq' = [rq EXCEPT !.pc = "cleanup", !.key = u]
                 \/ \E r \in Responses :
                    \E i \in {IF should_cache(r.len)
                                THEN cache_insert(g.cache, u, r.val, r.len)
                                ELSE [cache |-> g.cache, ret |-> NULL]} :
                       /\ SetCache(i.cache)
                       /\ made' = Remade(i.cache, i.ret, u, r.val, r.len)
                       /\ rq' = [rq EXCEPT !.pc = "cleanup", !.key = u,
                                           !.host_fd = "open",
                                           !.reply = <<<<"response">>>>]
    /\ UNCHANGED <<acc, rw, proc, held, nextCold, last, serveVars, objSize,
                   mutex, th>>

\* serve: parser_free(p); close(client.connfd)
PsCleanup ==
    /\ rq.pc = "cleanup"
    /\ rq' = [rq EXCEPT !.pc = "closed", !.parser = "freed",
                        !.connfd = "closed"]
    /\ UNCHANGED <<acc, rw, proc, cacheVars, held, made, nextCold, last, serveVars, objSize,
                   mutex, th>>

\* serve: return NULL; the thread ends and its locals are gone
PsReturn ==
    /\ rq.pc = "closed"
    /\ rq' = NoRequest
    /\ UNCHANGED <<acc, rw, proc, cacheVars, held, made, nextCold, last, serveVars, objSize,
                   mutex, th>>

ParseNext ==
    \/ PsAccept
    \/ PsParse
    \/ PsWriteHeaders
    \/ PsWriteBody
    \/ PsServe
    \/ PsCleanup
    \/ PsReturn

ParseSpec == Init /\ [][ParseNext]_vars

\* ------------------------------------------------- rewriting the request
MaxHeaders == 3      \* headers of one request

\* csapp.h: the size of new_req, and of each line read from the client
MAXLINE == 8192
\* http_parser.h: the longest line the parser takes
PARSER_MAXLINE == 4096

\* A line is the sequence of its pieces, a message the sequence of its lines.
CRLF == "\r\n"
header_user_agent ==
    "Mozilla/5.0 (X11; Linux x86_64; rv:3.10.0) Gecko/20220411 Firefox/63.0.1"

\* a header value that fills a line of the parser: "Cookie: ", the value, CRLF
BigValue == "cookie..."
BigLen == PARSER_MAXLINE - 16

\* strlen
Strlen(s) == IF s = BigValue THEN BigLen ELSE Len(s)

\* the number of chars a snprintf of the line's pieces writes, the NUL aside
LineLen(line) ==
    LET sum[i \in 0..Len(line)] ==
            IF i = 0 THEN 0 ELSE sum[i - 1] + Strlen(line[i])
    IN sum[Len(line)]

\* the requests that parse_http_request accepts: info, as the parser gives it
Infos ==
    {[uri |-> "http://h/", host |-> "h", port |-> "80", version |-> v] :
        v \in {"1.0", "1.1"}} \cup
    {[uri |-> "http://example.com:8080/a", host |-> "example.com",
      port |-> "8080", version |-> "1.1"]}

\* the headers parser_retrieve_next_header may give
Headers ==
    {[name |-> "Connection", value |-> "keep-alive"],
     [name |-> "Proxy-Connection", value |-> "keep-alive"],
     [name |-> "User-Agent", value |-> "curl/7.0"],
     [name |-> "connection", value |-> "keep-alive"],
     [name |-> "Host", value |-> "example.com"],
     [name |-> "Host", value |-> "h:80"],
     [name |-> "Cookie", value |-> BigValue]}

\* the headers of one request, in the order of the parser's iterator
HeaderLists == UNION {[1..n -> Headers] : n \in 0..MaxHeaders}

\* the override test that forgets Proxy-Connection
Overridden_no_proxy(name) == name \in {"Connection", "User-Agent"}

\* the override test that ignores the case of the first letter
Overridden_any_case(name) ==
    name \in {"Connection", "connection", "Proxy-Connection", "User-Agent"}

\* construct_new_request: skip fields that are always overridden
Overridden(name) == name \in {"Connection", "Proxy-Connection", "User-Agent"}

\* the Host test that never sets host_found
IsHost_never(name) == FALSE

\* construct_new_request: strcmp(header->name, "Host") == 0
IsHost(name) == name = "Host"

\* the request line with the version of the client's request
RequestLine_client_version(info) ==
    <<"GET", " ", info.uri, " ", "HTTP/", info.version, CRLF>>

\* "GET %s HTTP/1.0\r\n"
RequestLine(info) == <<"GET", " ", info.uri, " ", "HTTP/", "1.0", CRLF>>

\* "%s: %s\r\n"
HeaderLine(name, value) == <<name, ": ", value, CRLF>>

\* "Host: %s:%s\r\n"
HostLine(info) == <<"Host", ": ", info.host \o ":" \o info.port, CRLF>>

\* "Connection: close\r\nProxy-Connection: close\r\nUser-Agent: %s\r\n\r\n"
FixedLines == <<HeaderLine("Connection", "close"),
                HeaderLine("Proxy-Connection", "close"),
                HeaderLine("User-Agent", header_user_agent),
                <<CRLF>>>>

\* snprintf(out, MAXLINE, ...); out += len: the lines are written at out,
\* wherever out points
Emit(r, lines) ==
    [r EXCEPT !.out = @ \o lines,
              !.len = @ + LineLen(lines[1]) +
                      (IF Len(lines) > 1
                         THEN LineLen(lines[2]) + LineLen(lines[3]) +
                              LineLen(lines[4])
                         ELSE 0)]

\* new_req[MAXLINE] holds the chars written and their NUL
Fits(r) == r.len + 1 <= MAXLINE

\* The state after a snprintf.  One that writes past the end of new_req has
\* undefined behaviour: the chars land in the stack above the array and the
\* worker goes on, or the write or the damaged stack ends the process.
Snprintf(r) ==
    \/ rw' = r /\ proc' = proc
    \/ ~Fits(r) /\ rw' = [r EXCEPT !.pc = "dead"] /\ proc' = "killed"

OtherVars == <<heap, head, size, held, made, nextCold, last, wk, conns,
               fetched, objSize, mutex, th, rq, acc>>

\* main and serve: a connection is accepted and its request parsed
RwAccept ==
    /\ proc = "running"
    /\ rw.pc = "idle"
    /\ \E i \in Infos, hs \in HeaderLists :
          rw' = [NoRewrite EXCEPT !.pc = "request_line", !.info = i,
                                  !.hdrs = hs, !.connfd = "open",
                                  !.parser = "live"]
    /\ UNCHANGED <<proc, OtherVars>>

\* construct_new_request: the request line
RwRequestLine ==
    /\ proc = "running"
    /\ rw.pc = "request_line"
    /\ Snprintf(Emit([rw EXCEPT !.pc = "headers"], <<RequestLine(rw.info)>>))
    /\ UNCHANGED OtherVars

\* construct_new_request: one turn of the loop over the client's headers
RwHeader ==
    /\ proc = "running"
    /\ rw.pc = "headers"
    /\ IF rw.next > Len(rw.hdrs)
         THEN rw' = [rw EXCEPT !.pc = "host"] /\ proc' = proc
         ELSE \E h \in {rw.hdrs[rw.next]} :
              IF Overridden(h.name)
                THEN rw' = [rw EXCEPT !.next = @ + 1] /\ proc' = proc
                ELSE Snprintf(Emit([rw EXCEPT
                                      !.next = @ + 1,
                                      !.host_found = @ \/ IsHost(h.name)],
                                   <<HeaderLine(h.name, h.value)>>))
    /\ UNCHANGED OtherVars

\* construct_new_request: if (!host_found) the Host line
RwHost ==
    /\ proc = "running"
    /\ rw.pc = "host"
    /\ IF rw.host_found
         THEN rw' = [rw EXCEPT !.pc = "fixed"] /\ proc' = proc
         ELSE Snprintf(Emit([rw EXCEPT !.pc = "fixed"], <<HostLine(rw.info)>>))
    /\ UNCHANGED OtherVars

\* construct_new_request: the fixed fields and the empty line; return true
RwFixed ==
    /\ proc = "running"
    /\ rw.pc = "fixed"
    /\ Snprintf(Emit([rw EXCEPT !.pc = "connect"], FixedLines))
    /\ UNCHANGED OtherVars

\* serve: open_clientfd(info.host, info.port)
RwConnect ==
    /\ proc = "running"
    /\ rw.pc = "connect"
    /\ \E ok \in BOOLEAN :
          rw' = IF ok THEN [rw EXCEPT !.pc = "send", !.host_fd = "open"]
                ELSE [rw EXCEPT !.pc = "cleanup"]
    /\ UNCHANGED <<proc, OtherVars>>

\* serve: rio_writen(host_fd, new_req, strlen(new_req)), which writes all
\* the chars or fails after some of them
RwSend ==
    /\ proc = "running"
    /\ rw.pc = "send"
    /\ \/ rw' = [rw EXCEPT !.pc = "forward", !.sent = rw.out]
       \/ \E k \in {0, 1} :
             rw' = [rw EXCEPT !.pc = "cleanup", !.sent = SubSeq(rw.out, 1, k)]
    /\ UNCHANGED <<proc, OtherVars>>

\* serve: forward_http_response, which returns true or false; its call of
\* cache_insert allocates with Calloc and Malloc, which exit the process
\* when there is no memory
RwForward ==
    /\ proc = "running"
    /\ rw.pc = "forward"
    /\ \/ rw' = [rw EXCEPT !.pc = "cleanup"] /\ proc' = proc
       \/ rw' = [rw EXCEPT !.pc = "dead"] /\ proc' = "exited"
    /\ UNCHANGED OtherVars

\* serve: parser_free(p); close(client.connfd)
RwCleanup ==
    /\ proc = "running"
    /\ rw.pc = "cleanup"
    /\ rw' = [rw EXCEPT !.pc = "closed", !.parser = "freed",
                        !.connfd = "closed"]
    /\ UNCHANGED <<proc, OtherVars>>

\* serve: return NULL; the thread and its locals are gone
RwReturn ==
    /\ proc = "running"
    /\ rw.pc = "closed"
    /\ rw' = NoRewrite
    /\ UNCHANGED <<proc, OtherVars>>

RewriteNext ==
    \/ RwAccept
    \/ RwRequestLine
    \/ RwHeader
    \/ RwHost
    \/ RwFixed
    \/ RwConnect
    \/ RwSend
    \/ RwForward
    \/ RwCleanup
    \/ RwReturn

RewriteSpec == Init /\ [][RewriteNext]_vars

\* The line parser, applied to one line: the CRLF is optional; a request line
\* is method, URI and HTTP/version; a header is name, colon, value.
StripCRLF(line) ==
    IF Len(line) > 0 /\ line[Len(line)] = CRLF
      THEN SubSeq(line, 1, Len(line) - 1) ELSE line

NoLine == [state |-> "ERROR", method |-> "", uri |-> "", version |-> "",
           name |-> "", value |-> ""]

parser_parse_line(line) ==
    LET l == StripCRLF(line) IN
    IF Len(l) = 6 /\ l[2] = " " /\ l[4] = " " /\ l[5] = "HTTP/"
      THEN [NoLine EXCEPT !.state = "REQUEST", !.method = l[1], !.uri = l[3],
                          !.version = l[6]]
    ELSE IF Len(l) = 3 /\ l[2] = ": "
      THEN [NoLine EXCEPT !.state = "HEADER", !.name = l[1], !.value = l[3]]
    ELSE NoLine

\* ------------------------------------------------- the accept loop
\* acc.client[i] is the client_info of the i-th turn of main's loop: its
\* block, its socket, who holds the pointer and the descriptor (main, the
\* worker, nobody), and where the thread made for it is.
AccVars == <<heap, head, size, held, made, nextCold, last, wk, conns,
             fetched, objSize, mutex, th, rq, rw, proc>>

SetClient(i, c) == [acc EXCEPT !.client[i] = c]

\* main: client = Malloc(sizeof(client_info))
AcMalloc ==
    /\ acc.pc = "malloc"
    /\ acc.cur < MaxConns
    /\ acc' = [acc EXCEPT !.pc = "accept", !.cur = @ + 1,
                          !.client[acc.cur + 1] =
                              [NoClient EXCEPT !.struct = "allocated",
                                               !.owner = "main"]]
    /\ UNCHANGED AccVars

\* main: client->connfd = accept(...); if it failed, perror and continue,
\* and the next turn assigns client anew
AcAccept ==
    /\ acc.pc = "accept"
    /\ \E ok \in BOOLEAN :
          acc' = IF ok
                   THEN [acc EXCEPT !.pc = "create",
                                    !.client[acc.cur].connfd = "open"]
                   ELSE [acc EXCEPT !.pc = "malloc",
                                    !.client[acc.cur].owner = "nobody"]
    /\ UNCHANGED AccVars

\* main: pthread_create(&tid, NULL, serve, client); a failure is logged and
\* the loop goes on
AcCreate ==
    /\ acc.pc = "create"
    /\ \E ok \in BOOLEAN :
          acc' = IF ok
                   THEN [acc EXCEPT !.pc = "malloc",
                                    !.client[acc.cur].owner = "worker",
                                    !.client[acc.cur].thread = "start"]
                   ELSE [acc EXCEPT !.pc = "malloc",
                                    !.client[acc.cur].owner = "nobody"]
    /\ UNCHANGED AccVars

\* serve: memcpy(&client, vargp, sizeof(client)); Free(vargp)
AcCopy(i) ==
    /\ acc.client[i].thread = "start"
    /\ acc' = SetClient(i, [acc.client[i] EXCEPT !.struct = "freed",
                                                  !.thread = "detach"])
    /\ UNCHANGED AccVars

\* serve: if pthread_detach fails, return NULL
AcDetach(i) ==
    /\ acc.client[i].thread = "detach"
    /\ \E ok \in BOOLEAN :
          acc' = SetClient(i, IF ok
                                THEN [acc.client[i] EXCEPT !.thread = "serving"]
                                ELSE [acc.client[i] EXCEPT !.thread = "returned",
                                                           !.owner = "nobody"])
    /\ UNCHANGED AccVars

\* serve: the exchange, then close(client.connfd); return NULL
AcServe(i) ==
    /\ acc.client[i].thread = "serving"
    /\ acc' = SetClient(i, [acc.client[i] EXCEPT !.thread = "returned",
                                                  !.connfd = "closed",
                                                  !.owner = "nobody"])
    /\ UNCHANGED AccVars

AcceptNext ==
    \/ AcMalloc
    \/ AcAccept
    \/ AcCreate
    \/ \E i \in 1..MaxConns : AcCopy(i)
    \/ \E i \in 1..MaxConns : AcDetach(i)
    \/ \E i \in 1..MaxConns : AcServe(i)

AcceptSpec == Init /\ [][AcceptNext]_vars

\* ------------------------------------------------------ reading the list
\* the entries from cache->head along next, most recently used first
RECURSIVE Walk(_, _, _)
Walk(c, e, fuel) ==
    IF e = NULL \/ fuel = 0 THEN <<>>
    ELSE <<e>> \o (IF c.heap[e].next = c.head THEN <<>>
                   ELSE Walk(c, c.heap[e].next, fuel - 1))

LRU(c) == Walk(c, c.head, MaxEntries + 1)

RECURSIVE SumSizes(_, _)
SumSizes(c, s) == IF s = <<>> THEN 0
                  ELSE c.heap[Head(s)].size + SumSizes(c, Tail(s))

\* the entries that are members of the list
RECURSIVE ToSet(_)
ToSet(s) == IF s = <<>> THEN {} ELSE {Head(s)} \cup ToSet(Tail(s))

Members(c) == ToSet(LRU(c))

InList(c, e) == e \in Members(c)

Holders(e) == LET RECURSIVE Sum(_)
                  Sum(S) == IF S = {} THEN 0
                            ELSE LET w == CHOOSE x \in S : TRUE
                                 IN held[w][e] + Sum(S \ {w})
              IN Sum(Clients)

\* the entries whose next pointer is set: remove_entry and Calloc leave NULL
Linked(h) == {e \in Entries : h[e].alloc /\ h[e].next # NULL}

\* s without its element e
Without(s, e) == SelectSeq(s, LAMBDA x : x # e)

Contents(h, e) == [key |-> h[e].key, val |-> h[e].val, size |-> h[e].size]

\* s is the beginning of t
PrefixOf(s, t) == Len(s) <= Len(t) /\ s = SubSeq(t, 1, Len(s))

\* ---------------------------------------------------------------- claims

\* C1: after every cache operation the sizes of the entries in the LRU list
\* add up to at most MAX_CACHE_SIZE.
C1_SizeWithinBudget ==
    \E l \in {LRU(TheCache)} : SumSizes(TheCache, l) <= MAX_CACHE_SIZE

\* an insert has just evicted: the list is within one object of the budget
\* and the streaming thread has filled the cache
C1_Witness ==
    /\ last.op = "insert" /\ last.ret # NULL
    /\ nextCold > NumCold
    /\ SumSizes(TheCache, LRU(TheCache)) > MAX_CACHE_SIZE - MAX_OBJECT_SIZE
    /\ Len(LRU(TheCache)) < NumCold + 1

\* C2: no entry is freed while its reference count is above zero: an entry in
\* use counts one reference for the list and one per handle, a handle always
\* refers to an allocated entry, and a step that frees an entry is the
\* decrement of its count from 1 to 0.
C2_RefCounted ==
    \E m \in {Members(TheCache)} :
       \A e \in Entries :
          /\ Holders(e) > 0 => heap[e].alloc
          /\ heap[e].alloc =>
               /\ heap[e].ref > 0
               /\ heap[e].ref = Holders(e) + (IF e \in m THEN 1 ELSE 0)

C2_FreedAtZero ==
    \A e \in Entries :
       (heap[e].alloc /\ ~heap'[e].alloc) =>
          /\ heap[e].ref = 1
          /\ \A w \in Clients : held'[w][e] = 0
          /\ ~InList(Cache(heap', head', size'), e)

C2_NoFreeWhileReferenced == [](C2_RefCounted) /\ [][C2_FreedAtZero]_vars

\* the last handle of an entry that was evicted was released, destroying it
C2_Witness ==
    /\ last.op = "release"
    /\ ~heap[last.ret].alloc
    /\ find(TheCache, last.key) = NULL

\* C3: while a handle from cache_get is held, the entry is allocated and its
\* key, bytes and size are those passed to the cache_insert that created it,
\* also after the entry was evicted; and the entry cache_get returns has the
\* key that was asked for.
C3_HeldStable ==
    \A w \in Clients, e \in Entries :
       held[w][e] > 0 => heap[e].alloc /\ Contents(heap, e) = made[e]

C3_GetReturnsKey ==
    (last'.op = "get" /\ last'.ret # NULL) =>
       heap'[last'.ret].key = last'.key

C3_HeldUnchanged ==
    \A w \in Clients, e \in Entries :
       (held[w][e] > 0 /\ held'[w][e] > 0) =>
          heap'[e].alloc /\ Contents(heap', e) = Contents(heap, e)

C3_HandleContents ==
    /\ [](C3_HeldStable)
    /\ [][C3_GetReturnsKey]_vars
    /\ [][C3_HeldUnchanged]_vars

\* a client holds a handle on an entry that is no longer in the list
C3_Witness ==
    \E w \in Clients, e \in Entries :
       /\ held[w][e] > 0
       /\ ~InList(TheCache, e)
       /\ last.op = "insert"

\* C4: at most one entry of the LRU list has a given key.
C4_KeysUnique ==
    \E l \in {LRU(TheCache)} :
       \A i, j \in 1..Len(l) :
          heap[l[i]].key = heap[l[j]].key => i = j

\* cache_insert was called for a key that was present, with another size
C4_Witness ==
    /\ last.op = "insert" /\ last.ret # NULL
    /\ made[last.ret].size # last.size
    /\ Len(LRU(TheCache)) >= 2

\* C9: cache_insert with size > MAX_OBJECT_SIZE returns NULL and leaves the
\* entries, their order, their reference counts and the total size unchanged.
C9_OversizedStep ==
    (last'.op = "insert" /\ last'.size > MAX_OBJECT_SIZE) =>
       /\ last'.ret = NULL
       /\ UNCHANGED cacheVars

C9_OversizedRejected == [][C9_OversizedStep]_vars

C9_Witness ==
    /\ last.op = "insert" /\ last.size > MAX_OBJECT_SIZE
    /\ last.ret = NULL
    /\ Len(LRU(TheCache)) >= 2

\* C10: cache_insert of a key that is present returns the existing entry and
\* moves it to the head of the list; its bytes, size and reference count, the
\* total size, the order of the other entries and the set of allocated
\* entries are unchanged.
C10_DuplicateStep ==
    (last'.op = "insert" /\ last'.size <= MAX_OBJECT_SIZE) =>
       \E e \in {find(TheCache, last'.key)} :
          e # NULL =>
          /\ last'.ret = e
          /\ LRU(Cache(heap', head', size')) = <<e>> \o Without(LRU(TheCache), e)
          /\ size' = size
          /\ \A x \in Entries :
                /\ heap'[x].alloc = heap[x].alloc
                /\ Contents(heap', x) = Contents(heap, x)
                /\ heap'[x].ref = heap[x].ref

C10_DuplicatePromotes == [][C10_DuplicateStep]_vars

\* a key that was present, and not at the head, was inserted again with
\* another size
C10_Witness ==
    /\ last.op = "insert" /\ last.ret # NULL
    /\ last.size <= MAX_OBJECT_SIZE
    /\ made[last.ret].size # last.size
    /\ head = last.ret
    /\ Len(LRU(TheCache)) >= 3
    /\ made[LRU(TheCache)[2]].key \in HotKeys

\* C5: a worker that opened the origin socket has closed it when it returns.
C5_OriginSocketClosed ==
    \A t \in Workers : wk[t].pc = "done" => wk[t].host_fd # "open"

\* C6: when a worker returns, the client socket is closed and the parser, if
\* one was created, is freed.
C6_ClientClosedParserFreed ==
    \A t \in Workers :
       wk[t].pc = "done" => wk[t].connfd = "closed" /\ wk[t].parser # "live"

\* C7: a worker releases the handle it got from cache_get exactly once before
\* it returns, whether or not the write to the client succeeded: it never
\* releases more often than it got, and it returns with nothing held.
C7_HandleReleasedOnce ==
    \A t \in Workers :
       /\ wk[t].rels <= wk[t].gets
       /\ wk[t].pc \in {"cleanup", "done"} => wk[t].rels = wk[t].gets
       /\ wk[t].entry # NULL => wk[t].gets = 1

\* a worker returns after a hit whose write to the client failed
C7_Witness ==
    \E t \in Workers :
       wk[t].pc = "done" /\ wk[t].gets = 1 /\ wk[t].rels = 1 /\ wk[t].sent = <<>>

\* C8: a request for a URI whose entry was created by a completed miss and
\* has not been evicted since is a hit: the worker does not connect to the
\* origin, the handle's bytes are those the client of that miss received,
\* and they are what this client is sent.
C8_MissThenHit ==
    \A t \in Workers :
       wk[t].expect # <<>> =>
          /\ wk[t].gets = 1
          /\ ~wk[t].connected /\ wk[t].host_fd = "none"
          /\ wk[t].pc \in {"hit", "release"} =>
               <<[val |-> heap[wk[t].entry].val,
                  size |-> heap[wk[t].entry].size]>> = wk[t].expect
          /\ wk[t].sent \in {<<>>, wk[t].expect}
          /\ wk[t].pc = "hit" => wk[t].sent = <<>>

\* a worker returns after a hit that sent its client the bytes of the miss
C8_Witness ==
    \E t \in Workers :
       /\ wk[t].pc = "done"
       /\ wk[t].expect # <<>>
       /\ wk[t].sent = wk[t].expect
       /\ nextCold > NumCold

\* C11: cache_insert(k, v, s) with s <= MAX_OBJECT_SIZE on a cache that does
\* not hold k creates an entry with key k, bytes v and size s; a cache_get(k)
\* while k's entry is in the list returns that entry, whose key, bytes and
\* size are those of the insert that created it; and a cache_get(k) right
\* after any accepted insert of k returns the entry that insert returned.
C11_CreatingInsert ==
    (last'.op = "insert" /\ last'.size <= MAX_OBJECT_SIZE
       /\ find(TheCache, last'.key) = NULL) =>
       \E r \in {last'.ret} :
          /\ r # NULL
          /\ heap'[r].alloc
          /\ made'[r].key = last'.key /\ made'[r].size = last'.size
          /\ Contents(heap', r) = made'[r]
          /\ find(Cache(heap', head', size'), last'.key) = r

C11_GetStep ==
    last'.op = "get" =>
       \E e \in {find(TheCache, last'.key)} :
          /\ last'.ret = e
          /\ e # NULL => /\ made[e].key = last'.key
                         /\ Contents(heap', e) = made[e]

C11_GetRightAfter ==
    (last.op = "insert" /\ last.ret # NULL
       /\ last'.op = "get" /\ last'.key = last.key) =>
       last'.ret = last.ret

C11_GetAfterCreatingInsert ==
    [][C11_CreatingInsert /\ C11_GetStep /\ C11_GetRightAfter]_vars

\* C11 as stated, for every accepted insert: the cache_get(k) right after
\* cache_insert(k, v, s) returns an entry of size s.
C11_GetAfterAnyInsertStep ==
    (last.op = "insert" /\ last.size <= MAX_OBJECT_SIZE
       /\ last'.op = "get" /\ last'.key = last.key) =>
       /\ last'.ret # NULL
       /\ heap'[last'.ret].size = last.size

C11_GetAfterAnyInsert == [][C11_GetAfterAnyInsertStep]_vars

\* a cache_get hit on an entry of the largest size, with other entries around
C11_Witness ==
    /\ last.op = "get" /\ last.ret # NULL
    /\ Contents(heap, last.ret) =
          [key |-> last.key, val |-> 2, size |-> MAX_OBJECT_SIZE]
    /\ Len(LRU(TheCache)) >= 3

\* C12: a cache_get hit adds exactly one to the entry's reference count and
\* makes the entry the head of the list; the other entries keep their order,
\* their counts and their contents, and the total size is unchanged.  No
\* later step moves an entry it does not touch ahead of another: apart from
\* the entry a call returns, the list after the call is a beginning of the
\* list before it, so the entry of a hit stays ahead of every entry that is
\* not touched afterwards.
C12_GetHitStep ==
    (last'.op = "get" /\ last'.ret # NULL) =>
       \E e \in {last'.ret} :
          /\ heap'[e].ref = heap[e].ref + 1
          /\ head' = e
          /\ LRU(Cache(heap', head', size')) = <<e>> \o Without(LRU(TheCache), e)
          /\ size' = size
          /\ \A x \in Entries :
                /\ heap'[x].alloc = heap[x].alloc
                /\ Contents(heap', x) = Contents(heap, x)
                /\ x # e => heap'[x].ref = heap[x].ref

C12_UntouchedKeepOrder ==
    \/ head' = head /\ \A x \in Entries : heap'[x].next = heap[x].next
    \/ \E t \in {last'.ret} :
       \E before \in {LRU(TheCache)}, after \in {LRU(Cache(heap', head', size'))} :
          IF last'.op = "release" THEN after = before
          ELSE PrefixOf(Without(after, t), Without(before, t))

C12_GetPromotes == [][C12_GetHitStep /\ C12_UntouchedKeepOrder]_vars

\* both clients hold the entry of a hit that is the head of a list of at
\* least three entries, the second of which the streaming thread inserted
C12_Witness ==
    /\ last.op = "get" /\ last.ret # NULL
    /\ heap[last.ret].ref = 3
    /\ head = last.ret
    /\ Len(LRU(TheCache)) >= 3
    /\ heap[LRU(TheCache)[2]].key = ColdKey(NumCold - 1)

\* C13: cache_insert of a key that is absent, with size <= MAX_OBJECT_SIZE,
\* takes a block that was free, stores the key, the bytes and the size passed
\* to it, sets the reference count to 1 and makes the entry the head.  The
\* rest of the list afterwards is a beginning of the list before: the entries
\* evicted are an end of the old list and the survivors keep their order.
\* The total is within MAX_CACHE_SIZE, and keeping the first evicted entry
\* would have exceeded it.  An evicted entry loses the list's reference and
\* is freed if that was the last; survivors are unchanged.
C13_NewEntryStep ==
    (last'.op = "insert" /\ last'.size <= MAX_OBJECT_SIZE
       /\ find(TheCache, last'.key) = NULL) =>
       \E r \in {last'.ret}, before \in {LRU(TheCache)},
          after \in {LRU(Cache(heap', head', size'))} :
          /\ r # NULL /\ ~heap[r].alloc /\ heap'[r].alloc
          /\ Contents(heap', r) = made'[r]
          /\ made'[r].key = last'.key /\ made'[r].size = last'.size
          /\ heap'[r].ref = 1
          /\ after # <<>> /\ Head(after) = r
          /\ PrefixOf(Tail(after), before)
          /\ size' <= MAX_CACHE_SIZE
          /\ size' = SumSizes(Cache(heap', head', size'), after)
          /\ Len(after) <= Len(before) =>
                size' + heap[before[Len(after)]].size > MAX_CACHE_SIZE
          /\ \A i \in 1..Len(before) :
                \E x \in {before[i]} :
                   IF i < Len(after)
                     THEN heap'[x].ref = heap[x].ref
                          /\ Contents(heap', x) = Contents(heap, x)
                     ELSE IF heap[x].ref = 1 THEN ~heap'[x].alloc
                          ELSE /\ heap'[x].ref = heap[x].ref - 1
                               /\ Contents(heap', x) = Contents(heap, x)

C13_InsertNewEvictsSuffix == [][C13_NewEntryStep]_vars

\* the streaming thread's last insert has evicted two entries, its own first
\* one and, before it, a smaller one of a client that still holds a handle on it
C13_Witness ==
    /\ last.op = "insert" /\ last.key = ColdKey(NumCold)
    /\ head = last.ret /\ heap[last.ret].ref = 1
    /\ find(TheCache, ColdKey(1)) = NULL
    /\ \E w \in Clients, e \in Entries :
          /\ held[w][e] > 0
          /\ heap[e].size < MAX_OBJECT_SIZE
          /\ ~InList(TheCache, e)

\* C14: in the eviction scenario, with n objects of size s inserted in order
\* into the empty cache: when s > MAX_OBJECT_SIZE (the 200-KiB objects) every
\* insert is rejected and the cache stays empty, so every lookup is absent;
\* otherwise the list holds the last min(n, MAX_CACHE_SIZE \div s) keys
\* inserted, each with its own bytes, and the total is that number times s.
\* With objects of MAX_OBJECT_SIZE = 100 KiB: after k9's insert the total is
\* 1000 KiB and nothing is evicted, k10's insert evicts k0, and afterwards the
\* lookup of k0 is absent and the lookup of k10 returns the bytes of k10.
ScenFit == IF objSize = 0 \/ objSize > MAX_OBJECT_SIZE THEN 0
           ELSE IF nextCold - 1 < MAX_CACHE_SIZE \div objSize
                  THEN nextCold - 1 ELSE MAX_CACHE_SIZE \div objSize

ScenKept == {ScenKey(i) : i \in (nextCold - 1 - ScenFit)..(nextCold - 2)}

C14_ScenarioOutcome ==
    \E l \in {LRU(TheCache)} :
       /\ {heap[e].key : e \in ToSet(l)} = ScenKept
       /\ Len(l) = ScenFit
       /\ size = ScenFit * objSize
       /\ \A j \in 1..Len(l) :
             /\ heap[l[j]].size = objSize
             /\ \A i \in 0..(NumScen - 1) :
                   heap[l[j]].key = ScenKey(i) => heap[l[j]].val = ScenBytes(i)
             /\ last.op = "insert" => heap[l[j]].key = ScenKey(nextCold - 1 - j)
       /\ last.op = "get" =>
             /\ last.ret # NULL <=> last.key \in ScenKept
             /\ last.ret # NULL => heap[last.ret].key = last.key
       /\ (objSize = MAX_OBJECT_SIZE /\ nextCold - 1 = 10) =>
             size = 1000 * 1024 /\ find(TheCache, ScenKey(0)) # NULL
       /\ (objSize = MAX_OBJECT_SIZE /\ nextCold - 1 >= 11) =>
             find(TheCache, ScenKey(0)) = NULL /\ find(TheCache, ScenKey(10)) # NULL

\* C14 as stated, for the 200-KiB objects: after k5's insert the total is
\* 1 MiB and k0..k5 are all in the list; after k6's insert k0 is gone and k6
\* is there; once the ten are inserted the lookup of k0 is absent and the
\* lookup of k6 returns the bytes of k6.
C14_ScenarioD ==
    objSize = 200 * 1024 =>
       /\ (last.op = "insert" /\ last.key = ScenKey(5)) =>
             size = MAX_CACHE_SIZE /\ Len(LRU(TheCache)) = 6
       /\ (last.op = "insert" /\ last.key = ScenKey(6)) =>
             find(TheCache, ScenKey(0)) = NULL /\ find(TheCache, ScenKey(6)) # NULL
       /\ (last.op = "get" /\ nextCold - 1 >= 10 /\ last.key = ScenKey(0)) =>
             last.ret = NULL
       /\ (last.op = "get" /\ nextCold - 1 >= 10 /\ last.key = ScenKey(6)) =>
             last.ret # NULL /\ heap[last.ret].val = ScenBytes(6)

\* eleven objects of 100 KiB were inserted and the lookup of k10 hit
C14_Witness ==
    /\ objSize = MAX_OBJECT_SIZE /\ nextCold - 1 = 11
    /\ last.op = "get" /\ last.key = ScenKey(10) /\ last.ret # NULL
    /\ heap[last.ret].val = ScenBytes(10)
    /\ find(TheCache, ScenKey(0)) = NULL

\* C15: an entry that is evicted while a client holds a handle on it is
\* unlinked and stays allocated, with the key, bytes and size it had, while
\* any handle on it is held; its count is then the number of handles, and the
\* release of the last of them frees it.  The step that evicts the entry
\* leaves its key absent, an absent key stays absent until a cache_insert of
\* that key, and such an insert returns another entry and leaves the bytes
\* of the evicted one alone.
C15_EvictedHeld ==
    \E m \in {Members(TheCache)} :
       /\ m = Linked(heap)
       /\ \A e \in Entries \ m :
             (\E w \in Clients : held[w][e] > 0) =>
                /\ heap[e].alloc
                /\ Contents(heap, e) = made[e]
                /\ heap[e].ref = Holders(e)
                /\ find(TheCache, heap[e].key) # e

\* m, n: the entries of the list before and after the step, which are those
\* whose next pointer is set
C15_EvictStep(m, n) ==
    \A e \in m \ n :
       (\E w \in Clients : held[w][e] > 0) =>
          /\ last'.op = "insert" /\ last'.ret # e
          /\ heap'[e].alloc
          /\ Contents(heap', e) = Contents(heap, e)
          /\ heap'[e].ref = heap[e].ref - 1
          /\ find(Cache(heap', head', size'), heap[e].key) = NULL

C15_ReleaseStep(m, n) ==
    last'.op = "release" =>
       \E e \in {last'.ret} :
          e \notin m =>
             IF Holders(e) = 1 THEN ~heap'[e].alloc
             ELSE heap'[e].alloc /\ Contents(heap', e) = Contents(heap, e)

\* an entry of the list afterwards was in the list before, with the same key,
\* or is the entry a cache_insert of its key returned
C15_AbsentUntilInsert(m, n) ==
    \A e \in n :
       \/ e \in m /\ heap'[e].key = heap[e].key
       \/ last'.op = "insert" /\ last'.ret = e /\ heap'[e].key = last'.key

C15_ReinsertStep(m, n) ==
    (last'.op = "insert" /\ last'.ret # NULL) =>
       \A e \in Entries \ m :
          ((\E w \in Clients : held[w][e] > 0) /\ last'.key = heap[e].key) =>
             /\ last'.ret # e
             /\ heap'[e].alloc
             /\ Contents(heap', e) = Contents(heap, e)

C15_Step ==
    \E m \in {Linked(heap)}, n \in {Linked(heap')} :
       /\ C15_EvictStep(m, n)
       /\ C15_ReleaseStep(m, n)
       /\ C15_AbsentUntilInsert(m, n)
       /\ C15_ReinsertStep(m, n)

C15_DeferredFree == [](C15_EvictedHeld) /\ [][C15_Step]_vars

\* a client holds an evicted entry whose key was inserted again with other
\* bytes: the list has another entry of that key
C15_Witness ==
    \E w \in Clients, e \in Entries :
       /\ held[w][e] > 0
       /\ ~InList(TheCache, e)
       /\ \E f \in {find(TheCache, heap[e].key)} :
             /\ f # NULL /\ f # e
             /\ heap[f].val # heap[e].val
             /\ heap[e].val = made[e].val

\* C16: once every worker's cache_insert of the key has returned: if every
\* size was above MAX_OBJECT_SIZE no entry of the key exists and every call
\* returned NULL; otherwise exactly one entry of the key is allocated, it is
\* in the list once, its bytes and size are those of one accepted worker (the
\* one whose call created it), every accepted call returned this entry, the
\* total size is the sum over the list, and cache_get of the key returns it.
RaceAccepted == {t \in Workers : wk[t].cache_size <= MAX_OBJECT_SIZE}

RaceEntries == {e \in Entries : heap[e].alloc /\ heap[e].key = RaceKey}

C16_RaceOutcome ==
    RaceOver =>
       \E l \in {LRU(TheCache)}, es \in {RaceEntries} :
          /\ size = SumSizes(TheCache, l)
          /\ \A t \in Workers \ RaceAccepted : wk[t].entry = NULL
          /\ IF RaceAccepted = {}
               THEN es = {} /\ find(TheCache, RaceKey) = NULL
               ELSE /\ Cardinality(es) = 1
                    /\ \A e \in es :
                          /\ find(TheCache, RaceKey) = e
                          /\ Cardinality({i \in 1..Len(l) : l[i] = e}) = 1
                          /\ \E t \in RaceAccepted :
                                Contents(heap, e) =
                                   [key |-> RaceKey, val |-> wk[t].buf.val,
                                    size |-> wk[t].buf.size]
                          /\ Contents(heap, e) = made[e]
                          /\ \A t \in RaceAccepted : wk[t].entry = e
                          /\ heap[e].ref = 1 + held[RaceClient][e]
                          /\ last.op = "get" => last.ret = e

\* C16 as stated, whatever the sizes: once every call has returned, exactly
\* one entry of the key exists and holds the bytes and size of one worker.
C16_RaceOneEntry ==
    RaceOver =>
       /\ Cardinality(RaceEntries) = 1
       /\ \A e \in RaceEntries :
             \E t \in Workers :
                /\ heap[e].val = wk[t].buf.val
                /\ heap[e].size = wk[t].buf.size

\* both workers inserted into the full cache with different sizes, both
\* accepted, and the lookup returned the one entry
C16_Witness ==
    /\ RaceOver
    /\ nextCold > NumCold
    /\ RaceAccepted = Workers
    /\ wk[1].buf.size # wk[2].buf.size
    /\ last.op = "get" /\ last.ret # NULL
    /\ heap[last.ret].val \in {RaceBytes(t) : t \in Workers}

\* C17: when cache_insert(k, v) with size <= MAX_OBJECT_SIZE returns, k's
\* entry is in the list; an entry leaves the list only by eviction, in a
\* cache_insert that creates an entry of another key; while it is in the
\* list it keeps its key and is the entry find gives for that key; and a
\* cache_get(k) by any client while k has an entry in the list returns that
\* entry and gives the client a handle on it.
C17_InsertVisible(n) ==
    (last'.op = "insert" /\ last'.size <= MAX_OBJECT_SIZE) =>
       /\ last'.ret \in n
       /\ find(Cache(heap', head', size'), last'.key) = last'.ret

C17_StaysVisible(m, n) ==
    \A e \in m :
       IF e \in n
         THEN heap'[e].key = heap[e].key
         ELSE /\ last'.op = "insert"
              /\ last'.ret \in n \ m
              /\ last'.key # heap[e].key

C17_GetSeesEntry(m) ==
    last'.op = "get" =>
       \A e \in m :
          heap[e].key = last'.key =>
             /\ last'.ret = e
             /\ \E w \in Clients : held'[w][e] = held[w][e] + 1

\* the entries of the list are those whose next pointer is set, and each is
\* the entry find gives for its key
C17_ListIsLinked ==
    \E m \in {Members(TheCache)} :
       /\ m = Linked(heap)
       /\ \A e \in m : find(TheCache, heap[e].key) = e

C17_Step ==
    \E m \in {Linked(heap)}, n \in {Linked(heap')} :
       /\ C17_InsertVisible(n)
       /\ C17_StaysVisible(m, n)
       /\ C17_GetSeesEntry(m)

C17_VisibleUntilEvicted == [](C17_ListIsLinked) /\ [][C17_Step]_vars

\* the second client got a handle on a client's entry in a cache from which
\* other entries have been evicted
C17_Witness ==
    /\ last.op = "get" /\ last.ret # NULL
    /\ held[2][last.ret] > 0 /\ held[1][last.ret] = 0
    /\ last.key \in HotKeys
    /\ nextCold > NumCold
    /\ find(TheCache, ColdKey(1)) = NULL
    /\ find(TheCache, ColdKey(2)) = NULL

\* C18: a thread that is between cache_mutex_lock and cache_mutex_unlock of
\* cache_insert, cache_get or cache_entry_release holds the mutex, so at most
\* one thread is there at a time; only that thread changes the list, the
\* total size or a reference count, and the other threads do not move inside
\* the cache meanwhile.  So a thread that starts the body of a cache function
\* (the find of a cache_get, say, while another thread inserts the same key)
\* sees the cache as some call left it: the list is a closed ring of the
\* entries whose pointers are set, the total is the sum of their sizes and is
\* within budget, and every entry's count is one for the list plus one per
\* handle, never 0.
Handles(e) == Cardinality({t \in Workers : th[t].handle = e})

Whole ==
    \E l \in {LRU(TheCache)} :
       /\ ToSet(l) = Linked(heap)
       /\ Cardinality(ToSet(l)) = Len(l)
       /\ size = SumSizes(TheCache, l)
       /\ size <= MAX_CACHE_SIZE
       /\ \A e \in Entries :
             IF e \in ToSet(l)
               THEN /\ heap[e].alloc
                    /\ heap[heap[e].next].prev = e
                    /\ heap[heap[e].prev].next = e
                    /\ heap[e].ref = 1 + Handles(e)
               ELSE /\ heap[e].alloc => heap[e].ref = Handles(e) /\ heap[e].ref > 0
                    /\ heap[e].next = NULL /\ heap[e].prev = NULL

C18_OneInside == \A t \in Workers : th[t].pc \in Locked => mutex = t

C18_ReaderSeesWhole ==
    (\E t \in Workers : th[t].pc \in {"get_find", "ins_find", "rel_body"}) => Whole

C18_OnlyOwnerActs ==
    (cacheVars' # cacheVars /\ nextCold' = nextCold) =>
       /\ mutex \in Workers /\ mutex' = mutex
       /\ th[mutex].pc \in Locked
       /\ \A t \in Workers \ {mutex} : th'[t] = th[t]

C18_MutualExclusion ==
    /\ [](C18_OneInside /\ C18_ReaderSeesWhole)
    /\ [][C18_OnlyOwnerActs]_vars

\* a thread has made a new entry that is not linked in yet, and the other
\* thread waits for the mutex in cache_get of the same key
C18_Witness ==
    \E t, u \in Workers :
       /\ th[t].pc = "ins_link" /\ th[t].fresh
       /\ th[u].pc = "get_lock" /\ th[u].key = th[t].key
       /\ mutex = t
       /\ nextCold > NumCold

\* C19: a thread that is at a statement of socket I/O (reading the request,
\* talking to the origin, writing to the client) does not hold the mutex, and
\* a step that does such I/O is taken with the mutex not held by the thread;
\* the cached bytes are written by a thread that has its handle from a
\* cache_get that has unlocked, on an entry still allocated, and only then
\* does the thread go on to lock in cache_entry_release.
SocketIO == {"idle", "write_cached", "fetch"}

C19_NotLockedAtIO == \A t \in Workers : th[t].pc \in SocketIO => mutex # t

C19_IOStep ==
    \A t \in Workers :
       (th[t].pc \in SocketIO /\ th'[t] # th[t]) =>
          /\ mutex # t /\ mutex' # t
          /\ UNCHANGED cacheVars
          /\ th[t].pc = "write_cached" =>
                /\ th[t].handle # NULL
                /\ heap[th[t].handle].alloc
                /\ heap[th[t].handle].key = th[t].key
                /\ th'[t].pc = "rel_lock"
                /\ th'[t].handle = th[t].handle

C19_NoIOUnderLock == [](C19_NotLockedAtIO) /\ [][C19_IOStep]_vars

\* a thread writes cached bytes to its client while the other thread is
\* inside cache_insert with the mutex
C19_Witness ==
    \E t, u \in Workers :
       /\ th[t].pc = "rel_lock" /\ th[t].wrote > 0 /\ th[t].handle # NULL
       /\ th[u].pc \in {"ins_link", "ins_count", "ins_evict"}
       /\ mutex = u

\* C20: for a request of which at least one line was parsed, the checks run
\* in the order version, method, scheme, and the first that fails decides the
\* reply: a version that is neither 1.0 nor 1.1 gives 400 Bad Request; with a
\* good version, a method other than GET gives 501 Not Implemented; with a
\* good version and GET, a scheme other than http gives 501 Not Implemented.
\* A reply that is written starts with the status line "HTTP/1.0", the
\* number, the message; the request is never served; and the worker then
\* frees the parser and closes the connection.
Parsed(r) == r.lines = "some"
BadVersion(r) == r.version \notin {"1.0", "1.1", "none"}
BadMethod(r) == r.method \notin {"GET", "none"}
BadScheme(r) == r.scheme \notin {"http", "none"}
Rejected(r) == Parsed(r) /\ (BadVersion(r) \/ BadMethod(r) \/ BadScheme(r))

\* the number and message the claim gives for the request's first failing check
C20_Expected(r) ==
    IF BadVersion(r) THEN <<"400", "Bad Request">>
    ELSE IF r.version = "none" THEN <<"400", "Bad Request">>
    ELSE IF BadMethod(r) THEN <<"501", "Not Implemented">>
    ELSE IF r.method = "none" THEN <<"400", "Bad Request">>
    ELSE <<"501", "Not Implemented">>

C20_RejectedInOrder ==
    (rq.pc \notin {"idle", "parse"} /\ Rejected(rq.req)) =>
       /\ ~rq.ok
       /\ rq.pc # "serve"
       /\ <<rq.err[1], rq.err[2]>> = C20_Expected(rq.req)
       /\ rq.reply # <<>> =>
             rq.reply[1] = <<"HTTP/1.0">> \o C20_Expected(rq.req)
       /\ rq.pc = "closed" => rq.connfd = "closed" /\ rq.parser = "freed"

\* C20 as stated, each rejection for every request: once the reply is
\* written, a method other than GET has 501 Not Implemented, a scheme other
\* than http has 501 Not Implemented, a version other than 1.0 and 1.1 has
\* 400 Bad Request, and the connection is closed.
C20_EachRejection ==
    (rq.pc = "closed" /\ Parsed(rq.req) /\ Len(rq.reply) = 2
       /\ "none" \notin {rq.req.version, rq.req.method, rq.req.scheme}) =>
       /\ BadMethod(rq.req) =>
             rq.reply[1] = <<"HTTP/1.0", "501", "Not Implemented">>
       /\ BadScheme(rq.req) =>
             rq.reply[1] = <<"HTTP/1.0", "501", "Not Implemented">>
       /\ BadVersion(rq.req) =>
             rq.reply[1] = <<"HTTP/1.0", "400", "Bad Request">>
       /\ rq.connfd = "closed"

\* a POST over http with version 1.0 was answered 501 and the connection is
\* closed
C20_Witness ==
    /\ rq.pc = "closed"
    /\ rq.req.lines = "some" /\ rq.req.method = "POST"
    /\ rq.req.version = "1.0" /\ rq.req.scheme = "http"
    /\ Len(rq.reply) = 2
    /\ rq.reply[1] = <<"HTTP/1.0", "501", "Not Implemented">>
    /\ rq.connfd = "closed"

\* C21: a request of which a line made parser_parse_line return ERROR is
\* answered with 400 Bad Request (clienterror is called with "400", "Bad
\* Request") and is not processed further: parse_http_request returns false
\* and the request is never served.
ParseFailure(r) == r.lines \in {"error_first", "error_later"}

C21_ParseFailureAnswered ==
    (rq.pc \notin {"idle", "parse"} /\ ParseFailure(rq.req)) =>
       /\ ~rq.ok
       /\ rq.pc # "serve"
       /\ rq.err # NoError
       /\ <<rq.err[1], rq.err[2]>> = <<"400", "Bad Request">>

\* C22: when the rewritten request does not fit in new_req (its chars and
\* the NUL are more than MAXLINE), the worker aborts the exchange: it never
\* connects to the origin and writes nothing to it, not even a part of the
\* request.
C22_OverflowAborts ==
    ~Fits(rw) => rw.host_fd = "none" /\ rw.sent = <<>>

\* the states in which construct_new_request has returned and new_req holds
\* the rewritten request
Built == {"connect", "send", "forward", "cleanup", "closed"}

\* the lines of a message that are headers of the given name
LinesNamed(msg, name) ==
    {i \in 1..Len(msg) : Len(msg[i]) = 4 /\ msg[i][1] = name /\ msg[i][2] = ": "}

\* the client's headers of the given name
Supplied(name) == {i \in 1..Len(rw.hdrs) : rw.hdrs[i].name = name}

\* the fields construct_new_request overrides, with their fixed values
Overrides == {<<"Connection", "close">>, <<"Proxy-Connection", "close">>,
              <<"User-Agent", header_user_agent>>}

\* C23: whatever number of Connection, Proxy-Connection and User-Agent
\* headers the client supplied, the rewritten request has exactly one line
\* of each of these three names, and that line carries the fixed value; the
\* request written to the origin is that request.
C23_OverridesOnce ==
    rw.pc \in Built =>
       /\ \A f \in Overrides :
             /\ Cardinality(LinesNamed(rw.out, f[1])) = 1
             /\ \A i \in LinesNamed(rw.out, f[1]) :
                   rw.out[i] = HeaderLine(f[1], f[2])
       /\ rw.pc = "forward" => rw.sent = rw.out

\* a request with two Connection headers and one User-Agent header was
\* rewritten and written to the origin
C23_Witness ==
    /\ rw.pc = "forward"
    /\ Cardinality(Supplied("Connection")) = 2
    /\ Cardinality(Supplied("User-Agent")) = 1
    /\ Supplied("Proxy-Connection") = {}
    /\ rw.sent = rw.out

\* C24: the rewritten request has a synthesized line "Host: <host>:<port>"
\* exactly when the client supplied no Host header.  With no Host header the
\* request has that one Host line; otherwise its Host lines are the client's
\* Host headers, name and value unchanged and in the parser's order, and
\* nothing else.
HostLines(msg) == [k \in 1..Cardinality(LinesNamed(msg, "Host")) |->
                     msg[CHOOSE i \in LinesNamed(msg, "Host") :
                           Cardinality({j \in LinesNamed(msg, "Host") : j <= i}) = k]]

SuppliedHosts ==
    [k \in 1..Cardinality(Supplied("Host")) |->
       LET i == CHOOSE i \in Supplied("Host") :
                   Cardinality({j \in Supplied("Host") : j <= i}) = k
       IN HeaderLine(rw.hdrs[i].name, rw.hdrs[i].value)]

C24_HostSynthesizedIffAbsent ==
    rw.pc \in Built =>
       /\ rw.host_found <=> Supplied("Host") # {}
       /\ HostLines(rw.out) = IF Supplied("Host") = {}
                                THEN <<HostLine(rw.info)>>
                                ELSE SuppliedHosts
       /\ rw.pc = "forward" => rw.sent = rw.out

\* a request with the header "Host: example.com" for a URI of host h was
\* rewritten and written to the origin: its only Host line is the client's
C24_Witness ==
    /\ rw.pc = "forward"
    /\ rw.info.host = "h"
    /\ Cardinality(Supplied("Host")) = 1
    /\ \E i \in Supplied("Host") : rw.hdrs[i].value = "example.com"
    /\ HostLines(rw.sent) = <<HeaderLine("Host", "example.com")>>

\* C25: the rewritten request, parsed line by line, gives a request line
\* with method GET, the URI of the client's request and version 1.0,
\* whatever the client's version was; then header lines only, among them
\* Connection: close, Proxy-Connection: close and the fixed User-Agent; then
\* the empty line that ends the request, and no empty line before it.  The
\* request written to the origin is that request.
C25_RoundTrip ==
    rw.pc \in Built =>
       LET msg == rw.out
           last_line == Len(msg)
           parsed == [i \in 1..last_line |-> parser_parse_line(msg[i])]
       IN /\ last_line >= 5
          /\ parsed[1].state = "REQUEST"
          /\ parsed[1].method = "GET"
          /\ parsed[1].uri = rw.info.uri
          /\ parsed[1].version = "1.0"
          /\ \A i \in 2..(last_line - 1) : parsed[i].state = "HEADER"
          /\ \A f \in Overrides :
                \E i \in 2..(last_line - 1) :
                   parsed[i].name = f[1] /\ parsed[i].value = f[2]
          /\ msg[last_line] = <<CRLF>>
          /\ \A i \in 1..(last_line - 1) : msg[i] # <<CRLF>>
          /\ rw.pc = "forward" => rw.sent = msg

\* a request made with HTTP/1.1 was rewritten and written to the origin,
\* and its request line parses to version 1.0
C25_Witness ==
    /\ rw.pc = "forward"
    /\ rw.info.version = "1.1"
    /\ Len(rw.hdrs) > 0
    /\ parser_parse_line(rw.sent[1]).version = "1.0"
    /\ parser_parse_line(rw.sent[1]).uri = rw.info.uri

\* the number of bytes in a sequence of blocks written to the client
SentBytes(sent) ==
    LET sum[i \in 0..Len(sent)] ==
            IF i = 0 THEN 0 ELSE sum[i - 1] + sent[i].size
    IN sum[Len(sent)]

\* the bytes the worker has read from the origin and not yet written
Pending(w) == IF w.pc = "write" THEN w.buf.size ELSE 0

\* C26: while a worker forwards a response, the client has received the
\* blocks read from the origin, each once and in the order read: after each
\* write all of them, after each read all but the block in buf.  Every block
\* before the last is MAX_OBJECT_SIZE bytes, cache_size counts the bytes
\* written, and no byte of the response is lost between the origin, buf and
\* the client from one read to the next, for responses of one block or of
\* several.
C26_ForwardedSoFar ==
    \A t \in Workers :
       wk[t].pc \in {"read", "write", "insert"} =>
          /\ Len(wk[t].sent) = wk[t].chunk - (IF wk[t].pc = "write" THEN 1 ELSE 0)
          /\ \A i \in 1..Len(wk[t].sent) :
                /\ wk[t].sent[i].val = Block(wk[t].rval, i - 1)
                /\ wk[t].sent[i].size > 0
                /\ (i < wk[t].chunk \/ wk[t].left > 0) =>
                      wk[t].sent[i].size = MAX_OBJECT_SIZE
          /\ wk[t].pc = "write" =>
                /\ wk[t].buf.val = Block(wk[t].rval, wk[t].chunk - 1)
                /\ wk[t].buf.size > 0
          /\ wk[t].cache_size = SentBytes(wk[t].sent)
          /\ wk[t].pc = "insert" => wk[t].left = 0

C26_ForwardStep ==
    \A t \in Workers :
       (wk[t].pc \in {"read", "write"} /\ wk'[t].pc \in {"read", "write", "insert"}) =>
          /\ wk'[t].left + Pending(wk'[t]) + SentBytes(wk'[t].sent)
               = wk[t].left + Pending(wk[t]) + SentBytes(wk[t].sent)
          /\ wk[t].pc = "write" /\ wk'[t].pc = "read" =>
                wk'[t].sent = Append(wk[t].sent, wk[t].buf)

C26_EveryByteOnceInOrder == [](C26_ForwardedSoFar) /\ [][C26_ForwardStep]_vars

\* a response of MAX_OBJECT_SIZE + 1 bytes was read to its end in two
\* blocks and the client has both, in order
C26_Witness ==
    \E t \in Workers :
       /\ wk[t].pc = "read"
       /\ wk[t].left = 0
       /\ Len(wk[t].sent) = 2
       /\ wk[t].sent[1] = [val |-> Block(wk[t].rval, 0), size |-> MAX_OBJECT_SIZE]
       /\ wk[t].sent[2] = [val |-> Block(wk[t].rval, 1), size |-> 1]

\* C27: the forwarder reaches its call of cache_insert exactly when the
\* origin's stream ended without a read or write error and the number of
\* bytes forwarded is in (0, MAX_OBJECT_SIZE]: a worker is at the call only
\* with the stream at EOF and such a total, a worker at EOF goes to the call
\* if the total is such and cannot go to it otherwise, the call is
\* cache_insert of the request's URI with the total as size, and a worker on
\* the miss path changes the cache by no other step, so an empty response or
\* one of more than MAX_OBJECT_SIZE bytes is streamed and leaves the cache as
\* it was.
AtEOF(w) == w.pc = "read" /\ w.left = 0

C27_AtInsert ==
    \A t \in Workers :
       /\ wk[t].pc = "insert" =>
             /\ wk[t].left = 0
             /\ wk[t].cache_size > 0 /\ wk[t].cache_size <= MAX_OBJECT_SIZE
             /\ wk[t].cache_size = SentBytes(wk[t].sent)
       /\ AtEOF(wk[t]) =>
             (ENABLED (ReadOrigin(t) /\ wk'[t].pc = "insert")
                <=> (wk[t].cache_size > 0 /\ wk[t].cache_size <= MAX_OBJECT_SIZE))

C27_MissPathStep ==
    \A t \in Workers :
       (wk'[t] # wk[t] /\ wk[t].pc \in {"connect", "send", "read", "write", "insert"}) =>
          /\ wk'[t].pc = "insert" => AtEOF(wk[t])
          /\ wk[t].pc # "insert" => UNCHANGED cacheVars
          /\ wk[t].pc = "insert" =>
                \E r \in {cache_insert(TheCache, wk[t].uri,
                                       BufBytes(wk[t].buf, wk[t].cache_size),
                                       wk[t].cache_size)} :
                   /\ r.ret # NULL
                   /\ heap' = r.cache.heap
                   /\ head' = r.cache.head
                   /\ size' = r.cache.size

C27_InsertIffCacheable == [](C27_AtInsert) /\ [][C27_MissPathStep]_vars

\* a response of MAX_OBJECT_SIZE + 1 bytes was streamed whole to the client
\* of a miss, the worker has left the loop without an insert, and the cache
\* has no entry for the URI
C27_Witness ==
    \E t \in Workers :
       /\ wk[t].pc = "cleanup"
       /\ wk[t].connected
       /\ SentBytes(wk[t].sent) = MAX_OBJECT_SIZE + 1
       /\ find(TheCache, wk[t].uri) = NULL
       /\ head = NULL

\* C28: when the forwarder calls cache_insert, the response was read in one
\* turn of the loop: the client was sent one block, buf still holds that
\* block, and cache_size is its length, so the first cache_size bytes of buf
\* are the whole of what was forwarded; the entry the call creates has
\* these bytes and this size under the request's URI.
C28_AtInsert ==
    \A t \in Workers :
       wk[t].pc = "insert" =>
          /\ Len(wk[t].sent) = 1
          /\ wk[t].sent[1] = wk[t].buf
          /\ wk[t].cache_size = wk[t].buf.size
          /\ BufBytes(wk[t].buf, wk[t].cache_size) = wk[t].sent[1].val

C28_InsertStep ==
    \A t \in Workers :
       (wk[t].pc = "insert" /\ wk'[t] # wk[t]) =>
          \A e \in Entries :
             (~heap[e].alloc /\ heap'[e].alloc) =>
                /\ heap'[e].key = wk[t].uri
                /\ heap'[e].val = wk[t].sent[1].val
                /\ heap'[e].size = SentBytes(wk[t].sent)

C28_CachedIsWhatWasForwarded == [](C28_AtInsert) /\ [][C28_InsertStep]_vars

\* a response of MAX_OBJECT_SIZE bytes, read in one block, was forwarded and
\* then inserted: the entry of its URI holds the block the client received
C28_Witness ==
    \E t \in Workers :
       /\ wk[t].pc = "cleanup"
       /\ wk[t].connected
       /\ Len(wk[t].sent) = 1
       /\ wk[t].sent[1].size = MAX_OBJECT_SIZE
       /\ find(TheCache, wk[t].uri) # NULL
       /\ heap[find(TheCache, wk[t].uri)].val = wk[t].sent[1].val
       /\ heap[find(TheCache, wk[t].uri)].size = MAX_OBJECT_SIZE

\* C29: when open_clientfd fails, when the write of the request to the
\* origin fails, when a read from the origin fails or when a write to the
\* client fails, the worker leaves the loop for the teardown: that step and
\* the teardown write nothing to the client, neither an error reply nor
\* more of the response, take nothing back of what was written, and leave
\* the cache as it was; the teardown frees the parser and closes the
\* client's socket.
C29_FailureStep ==
    \A t \in Workers :
       /\ (wk[t].pc \in {"connect", "send", "read", "write"}
             /\ wk'[t].pc = "cleanup") =>
             /\ wk'[t].sent = wk[t].sent
             /\ wk'[t].connfd = "open"
             /\ UNCHANGED cacheVars
       /\ (wk[t].pc = "cleanup" /\ wk'[t] # wk[t]) =>
             /\ wk'[t].pc = "done"
             /\ wk'[t].sent = wk[t].sent
             /\ wk'[t].connfd = "closed"
             /\ wk'[t].parser = "freed"
             /\ UNCHANGED cacheVars

C30_FailureContained ==
    /\ proc = "running"
    /\ mutex = NoOwner
    /\ rw.pc = "idle" => ENABLED RwAccept

\* C31: no client_info block that is allocated and no accepted socket that
\* is open is without an owner: main holds it during its turn of the loop,
\* or a worker that has not returned holds it, also after accept or
\* pthread_create failed.
C31_EveryResourceOwned ==
    \A i \in 1..MaxConns :
       (acc.client[i].struct = "allocated" \/ acc.client[i].connfd = "open") =>
          /\ acc.client[i].owner \in {"main", "worker"}
          /\ acc.client[i].owner = "worker" => acc.client[i].thread # "returned"

\* C32: no coalescing.  A worker whose lookup misses goes on to connect to
\* the origin whatever the other workers are doing, and can connect at once
\* even while another worker is fetching the same URI.  The cache_insert of a
\* worker that finds the key present allocates and frees nothing, changes
\* neither the bytes nor the size of the entry and moves it to the head: the
\* cached bytes stay those of the first insert.
C32_Missed(t) ==
    /\ wk[t].pc = "get"
    /\ wk'[t] # wk[t]
    => wk'[t].pc = IF find(TheCache, wk[t].uri) = NULL THEN "connect" ELSE "hit"

C32_SecondInsert(t) ==
    LET e == find(TheCache, wk[t].uri)
    IN /\ wk[t].pc = "insert"
       /\ wk'[t].pc # "insert"
       /\ e # NULL
       => /\ head' = e
          /\ heap'[e].key = heap[e].key
          /\ heap'[e].val = heap[e].val
          /\ heap'[e].size = heap[e].size
          /\ heap'[e].ref = heap[e].ref
          /\ size' = size
          /\ \A x \in Entries : heap'[x].alloc = heap[x].alloc
          /\ fetched' = fetched

C32_NoCoalescing ==
    /\ [](\A t \in Workers : Quiet /\ wk[t].pc = "connect" => ENABLED Connect(t))
    /\ [][\A t \in Workers : C32_Missed(t) /\ C32_SecondInsert(t)]_vars

\* two workers missed on the same URI and both connected; the first has
\* inserted its response, the second is about to insert different bytes
C32_Witness ==
    \E t \in Workers, s \in Workers :
       /\ t # s
       /\ wk[t].uri = wk[s].uri
       /\ wk[t].expect = <<>> /\ wk[s].expect = <<>>
       /\ wk[t].connected /\ wk[s].connected
       /\ wk[s].pc = "cleanup"
       /\ wk[t].pc = "insert"
       /\ find(TheCache, wk[t].uri) # NULL
       /\ fetched[wk[t].uri] = wk[s].sent
       /\ wk[t].sent # wk[s].sent

\* C33 as stated: an insert that finds its key present evicts the old entry
\* (unlinks it and drops the cache's reference on it) and puts the newly
\* inserted object in its place.
C33_ReplacedStep ==
    (last'.op = "insert" /\ last'.size <= MAX_OBJECT_SIZE) =>
       \E e \in {find(TheCache, last'.key)} :
          e # NULL =>
          \E f \in {find(Cache(heap', head', size'), last'.key)} :
             /\ f # NULL
             /\ heap'[f].size = last'.size
             /\ f = e => heap[e].ref = 1
             /\ f # e => /\ e \notin Linked(heap')
                         /\ heap'[e].alloc => heap'[e].ref = heap[e].ref - 1

C33_DuplicateReplaces == [][C33_ReplacedStep]_vars

\* C33: an insert that finds its key present does not evict the entry: the
\* entry stays a member of the list, the cache's reference on it is kept, its
\* bytes and size stay as they were and no entry is made for the caller's
\* object.  An entry leaves the list only in an insert of a key that was
\* absent and whose object takes the cache over MAX_CACHE_SIZE.
C33_KeptStep ==
    /\ (last'.op = "insert" /\ last'.size <= MAX_OBJECT_SIZE) =>
          \E e \in {find(TheCache, last'.key)} :
             e # NULL =>
             /\ e \in Linked(heap')
             /\ head' = e
             /\ heap'[e].ref = heap[e].ref
             /\ Contents(heap', e) = Contents(heap, e)
             /\ {x \in Entries : heap'[x].alloc} = {x \in Entries : heap[x].alloc}
             /\ Linked(heap') = Linked(heap)
    /\ Linked(heap) \ Linked(heap') # {} =>
          /\ last'.op = "insert"
          /\ find(TheCache, last'.key) = NULL
          /\ size + last'.size > MAX_CACHE_SIZE

C33_DuplicateKeepsEntry == [][C33_KeptStep]_vars

\* a key whose entry a client holds was inserted again with an object of
\* another size
C33_Witness ==
    /\ last.op = "insert" /\ last.ret # NULL
    /\ last.size <= MAX_OBJECT_SIZE
    /\ made[last.ret].size # last.size
    /\ heap[last.ret].ref >= 2
    /\ head = last.ret
    /\ last.ret \in Linked(heap)

\* C34: the rewritten request is the request line, then every client header
\* whose name is not exactly Connection, Proxy-Connection or User-Agent,
\* unchanged, in the iterator's order and with duplicates kept, then the
\* synthesized Host line if the client sent no Host header, then the three
\* fixed headers and the empty line.  A header named "connection" passes
\* through and stands before "Connection: close".
PassThrough ==
    SelectSeq(rw.hdrs,
              LAMBDA h : h.name \notin {"Connection", "Proxy-Connection",
                                        "User-Agent"})

C34_OthersPassThrough ==
    rw.pc \in Built =>
       /\ rw.out =
             <<RequestLine(rw.info)>>
             \o [i \in 1..Len(PassThrough) |->
                   <<PassThrough[i].name, ": ", PassThrough[i].value, CRLF>>]
             \o (IF \E i \in 1..Len(rw.hdrs) : rw.hdrs[i].name = "Host"
                   THEN <<>>
                   ELSE <<HostLine(rw.info)>>)
             \o FixedLines
       /\ \A i \in LinesNamed(rw.out, "connection") :
             \A j \in LinesNamed(rw.out, "Connection") : i < j

\* a request with two "connection: keep-alive" headers and a Connection
\* header was rewritten and written to the origin with both of them
C34_Witness ==
    /\ rw.pc = "forward"
    /\ Cardinality(Supplied("connection")) = 2
    /\ Supplied("Connection") # {}
    /\ Cardinality(LinesNamed(rw.sent, "connection")) = 2
    /\ Cardinality(LinesNamed(rw.sent, "Connection")) = 1

\* C35: between two cache operations the reference count of every entry that
\* exists is 1 for its membership of the list, if it is a member, plus one
\* per handle got from cache_get and not yet released.  The count is never
\* below 1 for an entry that exists, and a block that is not allocated has no
\* handle.  cache_insert gives its caller no reference: it leaves the handles
\* as they are, a new entry starts with the list's reference only, and an
\* entry already present keeps its count.
C35_Counted ==
    \E m \in {Linked(heap)} :
       \A e \in Entries :
          \E h \in {Holders(e)} :
             IF heap[e].alloc
               THEN /\ heap[e].ref = (IF e \in m THEN 1 ELSE 0) + h
                    /\ heap[e].ref >= 1
                    /\ e \notin m => h >= 1
               ELSE h = 0 /\ e \notin m

C35_InsertStep ==
    last'.op = "insert" =>
       /\ held' = held
       /\ last'.ret # NULL =>
             heap'[last'.ret].ref =
                IF heap[last'.ret].alloc THEN heap[last'.ret].ref ELSE 1

C35_RefIsListPlusHandles == [](C35_Counted) /\ [][C35_InsertStep]_vars

\* both clients hold an entry that an insert has just evicted: its count is
\* 2, and the key it had is absent
C35_Witness ==
    /\ last.op = "insert" /\ last.ret # NULL
    /\ \E e \in Entries :
          /\ heap[e].alloc
          /\ e \notin Linked(heap)
          /\ held[1][e] = 1 /\ held[2][e] = 1
          /\ heap[e].ref = 2
          /\ find(TheCache, heap[e].key) = NULL

\* C36: whenever the mutex is free, cache->size is the sum of the sizes of
\* exactly the entries linked in the list, 0 for the cache as created.  While
\* a thread is between the two halves of insert_front the entry it has linked
\* is the one entry not yet counted.  Step by step: the size of an entry
\* never changes, remove_entry subtracts the size of the entry it unlinks,
\* which is never more than cache->size, linking changes nothing and the last
\* statement of insert_front adds the size of the same entry, so that a
\* promotion leaves the total as it was.
Uncounted ==
    {th[t].e : t \in {u \in Workers : th[u].pc \in {"get_count", "ins_count"}}}

C36_SizeIsSum ==
    \E l \in {LRU(TheCache)} :
       /\ ToSet(l) = Linked(heap)
       /\ size >= 0
       /\ size = SumSizes(TheCache, SelectSeq(l, LAMBDA e : e \notin Uncounted))
       /\ mutex = NoOwner => Uncounted = {} /\ size = SumSizes(TheCache, l)
       /\ head = NULL => size = 0

C36_SizeStep ==
    /\ \A e \in Entries :
          heap[e].alloc /\ heap'[e].alloc => heap'[e].size = heap[e].size
    /\ mutex # NoOwner =>
          /\ \A e \in Linked(heap) \ Linked(heap') :
                /\ heap[e].size <= size
                /\ size' = size - heap[e].size
          /\ Linked(heap') \ Linked(heap) # {} => size' = size
          /\ \A e \in Uncounted :
                Uncounted' = {} => size' = size + heap[e].size
    /\ \A t \in Workers :
          (th[t].pc \in {"get_find", "ins_find"} /\ th'[t].pc \in {"get_link", "ins_link"}
             /\ ~th'[t].fresh) =>
             size' + heap'[th'[t].e].size = size

C36_TotalIsSumOfLinked == [](C36_SizeIsSum) /\ [][C36_SizeStep]_vars

\* after evictions a thread has got an entry that was not alone in the list:
\* the entry was promoted, and the mutex is free again
C36_Witness ==
    /\ mutex = NoOwner
    /\ \E t \in Workers :
          /\ th[t].pc = "write_cached"
          /\ th[t].handle = head
          /\ heap[head].next # head
    /\ find(TheCache, ColdKey(1)) = NULL
    /\ size = SumSizes(TheCache, LRU(TheCache))
    /\ size > MAX_CACHE_SIZE - MAX_OBJECT_SIZE

\* C37: between two cache operations the list is a well-formed ring.  head is
\* NULL exactly when no entry is linked.  For every linked entry e,
\* e->next->prev = e and e->prev->next = e.  Following next from head visits
\* every linked entry exactly once and comes back to head, and head->prev is
\* the entry visited last, the least recently used one.  An entry that exists
\* and is not linked (evicted while a handle is out) has next = prev = NULL
\* and is not reached from head.
C37_Ring ==
    \E l \in {LRU(TheCache)} :
       /\ head = NULL <=> Linked(heap) = {}
       /\ head = NULL <=> l = <<>>
       /\ \A i \in 1..Len(l) :
             /\ heap[l[i]].alloc
             /\ heap[l[i]].next = l[IF i = Len(l) THEN 1 ELSE i + 1]
             /\ heap[l[i]].prev = l[IF i = 1 THEN Len(l) ELSE i - 1]
             /\ \A j \in 1..Len(l) : l[i] = l[j] => i = j
       /\ {l[i] : i \in 1..Len(l)} = Linked(heap)
       /\ l # <<>> => l[1] = head /\ heap[head].prev = l[Len(l)]
       /\ \A e \in Entries \ Linked(heap) :
             /\ heap[e].next = NULL /\ heap[e].prev = NULL
             /\ \A i \in 1..Len(l) : l[i] # e
       /\ \A e \in Linked(heap) :
             /\ heap[heap[e].next].prev = e
             /\ heap[heap[e].prev].next = e

\* an evicted entry that a client still holds stands outside a ring of
\* several entries
C37_Witness ==
    /\ Len(LRU(TheCache)) >= 3
    /\ \E e \in Entries :
          /\ heap[e].alloc
          /\ heap[e].next = NULL /\ heap[e].prev = NULL
          /\ held[1][e] + held[2][e] >= 1
    /\ heap[heap[head].prev].next = head

\* C38: the eviction loop of a cache_insert that made a new entry never
\* evicts that entry.  From the moment the entry is counted until the call
\* unlocks, the entry is allocated, linked, at the head of the list and has a
\* reference count of at least 1, and no turn of the loop unlinks or frees
\* it: the handle the call returns refers to a member of the cache.
C38_NewEntryLive ==
    \A t \in Workers :
       (th[t].pc \in {"ins_evict", "ins_unlock"} /\ th[t].fresh) =>
          /\ mutex = t
          /\ heap[th[t].e].alloc
          /\ heap[th[t].e].key = th[t].key
          /\ heap[th[t].e].ref >= 1
          /\ th[t].e \in Linked(heap)
          /\ head = th[t].e
          /\ th[t].pc = "ins_unlock" => size <= MAX_CACHE_SIZE

C38_EvictStep ==
    \A t \in Workers :
       (th[t].pc = "ins_evict" /\ th[t].fresh) =>
          /\ heap'[th[t].e].ref = heap[th[t].e].ref
          /\ heap'[th[t].e].alloc
          /\ th[t].e \in Linked(heap')
          /\ \A x \in Linked(heap) \ Linked(heap') : x # th[t].e /\ x = heap[head].prev

C38_NewEntrySurvivesEviction == [](C38_NewEntryLive) /\ [][C38_EvictStep]_vars

\* a thread's first cache_insert has made a new entry and its eviction loop
\* has evicted the oldest entry of the full cache; the call is about to unlock
C38_Witness ==
    \E t \in Workers :
       /\ th[t].pc = "ins_unlock" /\ th[t].fresh
       /\ th[t].ops = 1
       /\ \A s \in Workers \ {t} : th[s].ops = 0
       /\ find(TheCache, ColdKey(1)) = NULL
       /\ find(TheCache, ColdKey(2)) # NULL
       /\ head = th[t].e

\* C39: a cache function that has locked the mutex unlocks it before it
\* returns: the mutex is owned only by a thread that is between the lock and
\* the unlock of a cache function.  The search for a key runs on a ring that
\* closes, and under fair scheduling every call of cache_insert, cache_get or
\* cache_entry_release returns: no thread stays inside a cache function for
\* ever, whether in the eviction loop or waiting for the mutex.
C39_OwnerIsInside ==
    /\ mutex # NoOwner => th[mutex].pc \in Locked
    /\ \A t \in Workers :
          th[t].pc \in {"get_find", "ins_find"} =>
             \E l \in {LRU(TheCache)} :
                /\ Len(l) <= MaxEntries
                /\ l # <<>> => heap[l[Len(l)]].next = head

C39_EveryCallReturns ==
    /\ [](C39_OwnerIsInside)
    /\ \A t \in Workers : (th[t].pc \in InCache) ~> (th[t].pc \notin InCache)

\* one thread waits for the mutex while the other is in the eviction loop of
\* its cache_insert with the cache over its budget
C39_Witness ==
    \E t, u \in Workers :
       /\ th[t].pc \in {"get_lock", "rel_lock", "ins_lock"}
       /\ th[u].pc = "ins_evict"
       /\ mutex = u
       /\ size > MAX_CACHE_SIZE

\* C40: a request that the worker rejects causes no cache lookup, no cache
\* insert, no change of a reference count or of the order of the list, and
\* no connection to an origin.  The worker rejects a request whose reading
\* failed or gave no parsed line, and one whose version, method, scheme or
\* URI is missing or unsupported; cache_get is called, the origin is
\* connected to and the cache changes only for a request for which all of
\* these checks passed.
C40_Rejects(r) ==
    \/ r.lines \in {"readerr", "empty", "error_first"}
    \/ r.version \notin {"1.0", "1.1"}
    \/ r.method # "GET"
    \/ r.scheme # "http"
    \/ ~r.rest

C40_NoTrace ==
    (rq.pc # "idle" /\ C40_Rejects(rq.req)) =>
       /\ rq.pc # "serve"
       /\ rq.key = NULL
       /\ rq.host_fd = "none"

C40_CacheStep ==
    (cacheVars' # cacheVars \/ made' # made \/ rq'.key # rq.key
       \/ rq'.host_fd # rq.host_fd) =>
       \/ rq.pc = "serve" /\ rq.ok /\ ~C40_Rejects(rq.req)
       \/ rq'.key = NULL /\ rq'.host_fd = "none" /\ cacheVars' = cacheVars
          /\ made' = made

C40_RejectedTouchesNothing == [](C40_NoTrace) /\ [][C40_CacheStep]_vars

\* a request over https was answered 501 and is closed while the cache holds
\* the entries of earlier requests: no key was looked up, no origin connected
C40_Witness ==
    /\ rq.pc = "closed"
    /\ rq.req.scheme = "https"
    /\ rq.req.lines = "some" /\ rq.req.method = "GET" /\ rq.req.version = "1.1"
    /\ rq.err # NoError /\ rq.err[1] = "501"
    /\ rq.key = NULL /\ rq.host_fd = "none"
    /\ Len(LRU(TheCache)) = 2

====
